---- MODULE Spec2Model ----
(***************************************************************************)
(* A model of the tabular processing layer of AnalyticsWiz:                *)
(* utils/data_processor.py (DataProcessor) with the tables of config.py    *)
(* and the cross-tabulation of modules/generic_analysis.py.                *)
(*                                                                         *)
(* A dataset is an ordered list of column identifiers and an ordered list  *)
(* of rows.  Rows are kept run-length encoded: a run [n, c] stands for n   *)
(* consecutive identical rows with the cells c.  Only the columns named in *)
(* TrackedCols carry cells; the other columns hold a non-null filler.      *)
(* Floating point percentages are kept as integers: hundredths for the     *)
(* two-decimal percentages, tenths for wow_pct.                            *)
(***************************************************************************)
EXTENDS Integers, Sequences, FiniteSets, TLC

VARIABLES df, column_cache, input_text, call, local, result, session_state, script_run

vars == <<df, column_cache, input_text, call, local, result, session_state, script_run>>

----------------------------------------------------------------------------
(* Bounds of the model *)

\* most runs of a run-length encoded dataset of the weekly and partner specifications
MaxRuns == 2

\* most runs of a run-length encoded dataset of the aggregation specification
MaxAggRuns == 3

\* largest n handed to get_top_n
MaxN == 2

\* most columns of a short schema of the column resolver
MaxCols == 3

\* most pieces of a text handed to the text analyzer
MaxFragments == 2

\* most rows of one theme in a country of the tagged datasets
MaxThemeRows == 4

----------------------------------------------------------------------------
(* Generic helpers *)

Range(s) == {s[i] : i \in DOMAIN s}

Abs(x) == IF x < 0 THEN -x ELSE x

SetMin(S) == CHOOSE x \in S : \A y \in S : x <= y

SetMax(S) == CHOOSE x \in S : \A y \in S : x >= y

RECURSIVE SumOver(_, _)
SumOver(f, S) ==
  IF S = {} THEN 0
  ELSE LET x == CHOOSE y \in S : TRUE IN f[x] + SumOver(f, S \ {x})

\* all the sequences that enumerate the finite set S once
RECURSIVE Perms(_)
Perms(S) ==
  IF S = {} THEN {<<>>}
  ELSE UNION {{<<x>> \o p : p \in Perms(S \ {x})} : x \in S}

\* SeqsUpTo(S, n): the sequences over S of length 0..n
SeqsUpTo(S, n) == UNION {[1..k -> S] : k \in 0..n}

\* the ascending sequence of a finite set of integers
RECURSIVE Ascending(_)
Ascending(S) ==
  IF S = {} THEN <<>>
  ELSE <<SetMin(S)>> \o Ascending(S \ {SetMin(S)})

\* Rust's f64::round on the quotient a / b (b > 0): nearest integer, halves
\* away from zero.  polars' Expr.round(d) is round(x * 10^d) / 10^d.
RoundDiv(a, b) ==
  IF a >= 0 THEN (2 * a + b) \div (2 * b)
  ELSE -((2 * (-a) + b) \div (2 * b))

----------------------------------------------------------------------------
(* The proleptic Gregorian calendar, as polars' Date: days since 1970-01-01 *)

IsLeap(y) == (y % 4 = 0 /\ y % 100 # 0) \/ y % 400 = 0

DaysInMonth(y, m) ==
  IF m = 2 THEN (IF IsLeap(y) THEN 29 ELSE 28)
  ELSE IF m \in {4, 6, 9, 11} THEN 30 ELSE 31

DaysFromCivil(y, m, d) ==
  LET yy  == IF m <= 2 THEN y - 1 ELSE y
      era == yy \div 400
      yoe == yy - era * 400
      mp  == IF m > 2 THEN m - 3 ELSE m + 9
      doy == (153 * mp + 2) \div 5 + d - 1
      doe == yoe * 365 + yoe \div 4 - yoe \div 100 + doy
  IN era * 146097 + doe - 719468

CivilFromDays(z0) ==
  LET z   == z0 + 719468
      era == z \div 146097
      doe == z - era * 146097
      yoe == (doe - doe \div 1460 + doe \div 36524 - doe \div 146096) \div 365
      doy == doe - (365 * yoe + yoe \div 4 - yoe \div 100)
      mp  == (5 * doy + 2) \div 153
      d   == doy - (153 * mp + 2) \div 5 + 1
      m   == IF mp < 10 THEN mp + 3 ELSE mp - 9
      y   == yoe + era * 400 + (IF m <= 2 THEN 1 ELSE 0)
  IN [y |-> y, m |-> m, d |-> d]

ValidCivil(y, m, d) ==
  /\ y \in 1..9999
  /\ m \in 1..12
  /\ d >= 1
  /\ d <= DaysInMonth(y, m)

\* Expr.dt.year(): the calendar year of the date
dt_year(day) == CivilFromDays(day).y

\* Expr.dt.truncate("1w"): the Monday of the date's week (day 0 is a Thursday)
dt_truncate_1w(day) == day - ((day + 3) % 7)

\* Expr.dt.week(): the ISO 8601 week number, the week of the year that holds
\* the Thursday of the date's week
dt_week(day) ==
  LET thu == dt_truncate_1w(day) + 3
      jan1 == DaysFromCivil(dt_year(thu), 1, 1)
  IN (thu - jan1) \div 7 + 1

----------------------------------------------------------------------------
(* config.py *)

\* COLUMN_MAPPING, in declaration order (0-based indices)
COLUMN_MAPPING ==
  << [name |-> "queue", idx |-> 0],
     [name |-> "date", idx |-> 9],
     [name |-> "description", idx |-> 12],
     [name |-> "partner", idx |-> 18],
     [name |-> "country", idx |-> 20],
     [name |-> "description_translated", idx |-> 21] >>

\* DYNAMIC_COLUMNS, in declaration order; a pattern is a sequence of characters
DYNAMIC_COLUMNS ==
  << [name |-> "category",
      patterns |-> << <<"c", "a", "t", "e", "g", "o", "r", "y">>,
                      <<"c", "a", "t">> >>],
     [name |-> "subcategory",
      patterns |-> << <<"s", "u", "b", "-", "c", "a", "t", "e", "g", "o", "r", "y">>,
                      <<"s", "u", "b", "c", "a", "t", "e", "g", "o", "r", "y">>,
                      <<"i", "s", "s", "u", "e">>,
                      <<"r", "e", "a", "s", "o", "n">> >>] >>

----------------------------------------------------------------------------
(* Column identifiers: sequences of characters, so that the substring search
   of _detect_columns can be computed *)

ColQueue == <<"Q", "u", "e", "u", "e">>

ColCategory == <<"C", "a", "t", "e", "g", "o", "r", "y">>

ColIssue == <<"I", "s", "s", "u", "e">>

ColCreated == <<"C", "r", "e", "a", "t", "e", "d">>

ColDescription == <<"D", "e", "s", "c", "r", "i", "p", "t", "i", "o", "n">>

ColPartner == <<"P", "a", "r", "t", "n", "e", "r">>

ColCountry == <<"C", "o", "u", "n", "t", "r", "y">>

ColTranslated == <<"T", "r", "a", "n", "s", "l", "a", "t", "e", "d">>

\* a column of no interest, named c<i>
Filler(a, b) == <<"c", a, b>>

\* the schema the positional mapping assumes: 22 columns
WideSchema ==
  << ColQueue, ColCategory, ColIssue, Filler("0", "3"), Filler("0", "4"),
     Filler("0", "5"), Filler("0", "6"), Filler("0", "7"), Filler("0", "8"),
     ColCreated, Filler("1", "0"), Filler("1", "1"), ColDescription,
     Filler("1", "3"), Filler("1", "4"), Filler("1", "5"), Filler("1", "6"),
     Filler("1", "7"), ColPartner, Filler("1", "9"), ColCountry, ColTranslated >>

\* a dataset narrower than the date position
NarrowSchema == << ColQueue, ColCategory, ColCountry >>

\* a column identifier no schema holds
ColMissing == <<"M", "i", "s", "s", "i", "n", "g">>

\* str.lower() on one character
UpperLetters ==
  <<"A", "B", "C", "D", "E", "F", "G", "H", "I", "J", "K", "L", "M",
    "N", "O", "P", "Q", "R", "S", "T", "U", "V", "W", "X", "Y", "Z">>

LowerLetters ==
  <<"a", "b", "c", "d", "e", "f", "g", "h", "i", "j", "k", "l", "m",
    "n", "o", "p", "q", "r", "s", "t", "u", "v", "w", "x", "y", "z">>

LowerChar(ch) ==
  IF \E i \in DOMAIN UpperLetters : UpperLetters[i] = ch
  THEN LowerLetters[CHOOSE i \in DOMAIN UpperLetters : UpperLetters[i] = ch]
  ELSE ch

Lower(s) == [i \in DOMAIN s |-> LowerChar(s[i])]

\* Python's `pattern in text` on strings
Contains(pattern, text) ==
  \E i \in 0..(Len(text) - Len(pattern)) :
    \A j \in DOMAIN pattern : text[i + j] = pattern[j]

\* polars str.contains(pattern): the pattern is a regular expression, searched
\* anywhere in the text; of the metacharacters the model carries the dot,
\* which matches any character
str_contains(pattern, text) ==
  \E i \in 0..(Len(text) - Len(pattern)) :
    \A j \in DOMAIN pattern : pattern[j] = "." \/ text[i + j] = pattern[j]

----------------------------------------------------------------------------
(* DataProcessor._detect_columns and get_column *)

\* a width check that asks for one column more than the position needs
PositionalNamesOffByOne(columns) ==
  {COLUMN_MAPPING[k].name : k \in {j \in DOMAIN COLUMN_MAPPING :
                                     COLUMN_MAPPING[j].idx + 1 < Len(columns)}}

\* the positional names bound: idx < len(columns)
PositionalNames(columns) ==
  {COLUMN_MAPPING[k].name : k \in {j \in DOMAIN COLUMN_MAPPING :
                                     COLUMN_MAPPING[j].idx < Len(columns)}}

PositionalIndex(name) ==
  LET k == CHOOSE j \in DOMAIN COLUMN_MAPPING : COLUMN_MAPPING[j].name = name
  IN COLUMN_MAPPING[k].idx

\* a pattern search that forgets col.lower()
DynamicHitsCaseSensitive(columns, patterns) ==
  {i \in DOMAIN columns :
     \E p \in Range(patterns) : Contains(p, columns[i])}

\* the columns, by position, whose lowercased identifier holds one of the patterns
DynamicHits(columns, patterns) ==
  {i \in DOMAIN columns :
     \E p \in Range(patterns) : Contains(p, Lower(columns[i]))}

DynamicNames(columns) ==
  {DYNAMIC_COLUMNS[k].name : k \in {j \in DOMAIN DYNAMIC_COLUMNS :
      DynamicHits(columns, DYNAMIC_COLUMNS[j].patterns) # {}}}

DynamicPatterns(name) ==
  LET k == CHOOSE j \in DOMAIN DYNAMIC_COLUMNS : DYNAMIC_COLUMNS[j].name = name
  IN DYNAMIC_COLUMNS[k].patterns

\* the map _detect_columns leaves in _column_cache: the positional names first,
\* then for each dynamic name the first column, in column order, that holds
\* one of its patterns
detect_columns(columns) ==
  [name \in PositionalNames(columns) \cup DynamicNames(columns) |->
     IF name \in PositionalNames(columns)
     THEN columns[PositionalIndex(name) + 1]
     ELSE columns[SetMin(DynamicHits(columns, DynamicPatterns(name)))]]

\* a lookup that answers an identifier for a name the map does not hold
get_column_default(cache, name) ==
  IF name \in DOMAIN cache THEN <<cache[name]>> ELSE <<ColMissing>>

\* Optional[str] as a sequence of at most one identifier: <<>> is None
get_column(cache, name) ==
  IF name \in DOMAIN cache THEN <<cache[name]>> ELSE <<>>

----------------------------------------------------------------------------
(* Cells and tables *)

\* a null cell of any column type
Null == [k |-> "null"]

\* a text cell of a grouping column: s is a sequence of characters
Str(s) == [k |-> "str", s |-> s]

\* a text cell of the date column: three zero-padded numeric fields joined by
\* sep, followed by nothing (tm = "none") or by a time of day set off by a
\* space (tm = " ") or by a T (tm = "T").  "29/12/2025" is
\* DateText(29, 12, 2025, "/", "none").
DateText(a, b, c, sep, tm) ==
  [k |-> "str", t |-> [f |-> <<a, b, c>>, sep |-> sep, tm |-> tm]]

\* a text no date format matches
Garbage == DateText(0, 0, 0, "?", "none")

\* a cell of a pl.Date column: days since 1970-01-01
DateCell(day) == [k |-> "date", d |-> day]

\* a cell of a pl.Datetime column: day and second of the day
DatetimeCell(day, secs) == [k |-> "datetime", d |-> day, t |-> secs]

\* a cell of an integer column
IntCell(i) == [k |-> "int", i |-> i]

\* a nullable number of a derived table: <<>> is null, <<v>> is v
NullNum == <<>>

Num(v) == <<v>>

\* the columns whose cells the model carries
TrackedCols == {ColCreated, ColCountry, ColCategory}

\* df.columns membership
HasColumn(d, col) == col \in Range(d.columns)

\* the cell of a run in a column of the dataset
Cell(run, col) == IF col \in DOMAIN run.c THEN run.c[col] ELSE Str(<<"x">>)

\* the dtype of a column: the untracked columns are text
Dtype(d, col) == IF col \in DOMAIN d.dtypes THEN d.dtypes[col] ELSE "str"

\* len(df) of a run-length encoded list of rows
FrameLen(rows) == SumOver([i \in DOMAIN rows |-> rows[i].n], DOMAIN rows)

\* pl.DataFrame(): no columns, no rows
EmptyFrame == [shape |-> "empty", rows |-> <<>>]

----------------------------------------------------------------------------
(* Sorting.  DataFrame.sort and group_by are called without maintain_order,
   so polars fixes neither the order of the groups nor the relative order of
   rows with equal sort keys: every order that respects the keys can come out. *)

\* the ascending orders of the indices S by keys[i]: sequences of indices
RECURSIVE SortOrders(_, _)
SortOrders(S, keys) ==
  IF S = {} THEN {<<>>}
  ELSE LET m == SetMin({keys[i] : i \in S})
           G == {i \in S : keys[i] = m}
       IN {p \o rest : p \in Perms(G), rest \in SortOrders(S \ G, keys)}

\* frame.sort(key): the frames that can come out
SortFrames(rows, keys) ==
  {[j \in DOMAIN rows |-> rows[p[j]]] : p \in SortOrders(DOMAIN rows, keys)}

\* frame.head(n) for n >= 0
head_n(rows, n) == SubSeq(rows, 1, IF n < Len(rows) THEN n ELSE Len(rows))

----------------------------------------------------------------------------
(* DataProcessor._parse_dates *)

\* the formats list, in order
FORMATS ==
  << [o |-> <<"Y", "m", "d">>, sep |-> "-", time |-> FALSE],
     [o |-> <<"Y", "m", "d">>, sep |-> "-", time |-> TRUE],
     [o |-> <<"d", "m", "Y">>, sep |-> "/", time |-> FALSE],
     [o |-> <<"m", "d", "Y">>, sep |-> "/", time |-> FALSE],
     [o |-> <<"d", "m", "Y">>, sep |-> "-", time |-> FALSE],
     [o |-> <<"Y", "m", "d">>, sep |-> "/", time |-> FALSE],
     [o |-> <<"d", "m", "Y">>, sep |-> "/", time |-> TRUE],
     [o |-> <<"m", "d", "Y">>, sep |-> "/", time |-> TRUE] >>

\* the field of a text that a format reads as its part ("Y", "m" or "d")
FieldOf(fmt, text, part) ==
  text.f[CHOOSE i \in 1..3 : fmt.o[i] = part]

\* whether a text matches a format exactly: the separators are the format's,
\* the time of day is there exactly when the format reads one, %d and %m read
\* at most two digits, and the fields name a day of the calendar
Matches(fmt, text) ==
  /\ text.sep = fmt.sep
  /\ text.tm = (IF fmt.time THEN " " ELSE "none")
  /\ \A i \in 1..3 : fmt.o[i] # "Y" => text.f[i] < 100
  /\ ValidCivil(FieldOf(fmt, text, "Y"), FieldOf(fmt, text, "m"),
                FieldOf(fmt, text, "d"))

\* str.strptime(pl.Date, format=fmt, strict=False) on one cell of a text
\* column: the date, or null for a null or unparseable cell
strptime(fmt, cell) ==
  IF cell # Null /\ Matches(fmt, cell.t)
  THEN DateCell(DaysFromCivil(FieldOf(fmt, cell.t, "Y"),
                              FieldOf(fmt, cell.t, "m"),
                              FieldOf(fmt, cell.t, "d")))
  ELSE Null

\* the cells of a column, run by run
ColumnCells(d, col) == [i \in DOMAIN d.rows |-> Cell(d.rows[i], col)]

\* Series.null_count(), over the runs
NullCount(d, cells) ==
  SumOver([i \in DOMAIN cells |-> d.rows[i].n], {i \in DOMAIN cells : cells[i] = Null})

\* cast(pl.Date) of a native pl.Date or pl.Datetime column
NativeToDate(cells) ==
  [i \in DOMAIN cells |-> IF cells[i] = Null THEN Null ELSE DateCell(cells[i].d)]

\* the strict cast(pl.Date) of the direct-cast fallback: an integer is a day
\* number; a text is read as an ISO date (YYYY-MM-DD) and one text that is
\* not makes the cast raise
CastDateRaises(dtype, cells) ==
  /\ dtype = "str"
  /\ \E i \in DOMAIN cells : cells[i] # Null /\ ~Matches(FORMATS[1], cells[i].t)

CastDate(dtype, cells) ==
  [i \in DOMAIN cells |->
     IF cells[i] = Null THEN Null
     ELSE IF dtype = "int" THEN DateCell(cells[i].i)
     ELSE strptime(FORMATS[1], cells[i])]

\* whether a text is an ISO timestamp, YYYY-MM-DDTHH:MM:SS
IsoTimestamp(text) ==
  /\ text.sep = "-"
  /\ text.tm = "T"
  /\ text.f[2] < 100
  /\ text.f[3] < 100
  /\ ValidCivil(text.f[1], text.f[2], text.f[3])

\* the strict cast(pl.Datetime).dt.date() of the last fallback
CastDatetimeRaises(dtype, cells) ==
  /\ dtype = "str"
  /\ \E i \in DOMAIN cells : cells[i] # Null /\ ~IsoTimestamp(cells[i].t)

CastDatetime(dtype, cells) ==
  [i \in DOMAIN cells |->
     IF cells[i] = Null THEN Null
     ELSE IF dtype = "int" THEN DateCell(0)  \* microseconds, all within day 0
     ELSE DateCell(DaysFromCivil(cells[i].t.f[1], cells[i].t.f[2], cells[i].t.f[3]))]

\* the _parsed_date column str.strptime leaves under the j-th format
ParsedUnder(d, date_col, j) ==
  [i \in DOMAIN d.rows |-> strptime(FORMATS[j], Cell(d.rows[i], date_col))]

\* the formats under which the loop returns: on a text column, those that
\* parse at least one row (null_count() < len(df)); on any other column
\* .str raises and the loop goes on
FormatsThatParse(d, date_col) ==
  {j \in DOMAIN FORMATS :
     /\ Dtype(d, date_col) = "str"
     /\ NullCount(d, ParsedUnder(d, date_col, j)) < FrameLen(d.rows)}

\* a loop that keeps the last format that parses instead of returning
ChosenFormatLast(hits) == SetMax(hits)

\* the format the loop returns with: the first, in list order, that parses
ChosenFormat(hits) == SetMin(hits)

\* _parse_dates: ok = FALSE is the return of None; otherwise col is the
\* _parsed_date column, via names the strategy that produced it and fmt the
\* index of the format (0 when no format did)
parse_dates(d, date_col) ==
  LET dtype == Dtype(d, date_col)
      cells == ColumnCells(d, date_col)
      hits == FormatsThatParse(d, date_col)
  IN IF dtype \in {"date", "datetime"}
     THEN [ok |-> TRUE, via |-> "native", fmt |-> 0, col |-> NativeToDate(cells)]
     ELSE IF hits # {}
     THEN [ok |-> TRUE, via |-> "format", fmt |-> ChosenFormat(hits),
           col |-> ParsedUnder(d, date_col, ChosenFormat(hits))]
     ELSE IF ~CastDateRaises(dtype, cells)
     THEN [ok |-> TRUE, via |-> "cast_date", fmt |-> 0, col |-> CastDate(dtype, cells)]
     ELSE IF ~CastDatetimeRaises(dtype, cells)
     THEN [ok |-> TRUE, via |-> "cast_datetime", fmt |-> 0,
           col |-> CastDatetime(dtype, cells)]
     ELSE [ok |-> FALSE, via |-> "none", fmt |-> 0, col |-> <<>>]

----------------------------------------------------------------------------
(* DataProcessor.get_weekly_aggregation *)

\* group_by('week_start').agg(count).sort('week_start') over the rows whose
\* parsed date is not null: one [week_start, volume] per observed week
ObservedWeeks(d, col) ==
  LET kept == {i \in DOMAIN col : col[i] # Null}
      weeks == {dt_truncate_1w(col[i].d) : i \in kept}
      order == Ascending(weeks)
  IN [j \in DOMAIN order |->
        [week_start |-> order[j],
         volume |-> SumOver([i \in kept |-> d.rows[i].n],
                            {i \in kept : dt_truncate_1w(col[i].d) = order[j]})]]

\* the gap filling: with more than one observed week, the weeks from the
\* first to the last at 1-week steps, left-joined with the observed volumes,
\* a missing volume filled with 0
FillGaps(weekly) ==
  IF Len(weekly) > 1
  THEN LET min_date == weekly[1].week_start
           max_date == weekly[Len(weekly)].week_start
           full_range == [j \in 1..((max_date - min_date) \div 7 + 1) |->
                            min_date + 7 * (j - 1)]
       IN [j \in DOMAIN full_range |->
             [week_start |-> full_range[j],
              volume |-> IF \E w \in Range(weekly) : w.week_start = full_range[j]
                         THEN (CHOOSE w \in Range(weekly) :
                                 w.week_start = full_range[j]).volume
                         ELSE 0]]
  ELSE weekly

\* week_idx = dt.year() * 100 + dt.week() of the week start
WeekIdx(week_start) == dt_year(week_start) * 100 + dt_week(week_start)

\* the frames sort('week_idx') can leave
SortByWeekIdx(weekly) ==
  SortFrames(weekly, [j \in DOMAIN weekly |-> WeekIdx(weekly[j].week_start)])

\* the wow_pct of a row: ((volume - prev) / prev * 100).round(1), in tenths of
\* a percent, when prev is not null and prev > 0; null otherwise
WowPct(volume, prev_volume) ==
  IF prev_volume # NullNum /\ prev_volume[1] > 0
  THEN Num(RoundDiv((volume - prev_volume[1]) * 1000, prev_volume[1]))
  ELSE NullNum

\* the classification with >= in place of > at the SPIKE threshold
TrendLabelInclusive(wow_pct) ==
  IF wow_pct = NullNum THEN "N/A"
  ELSE IF wow_pct[1] >= 150 THEN "SPIKE"
  ELSE IF wow_pct[1] > 50 THEN "UP"
  ELSE IF wow_pct[1] < -100 THEN "DOWN"
  ELSE "FLAT"

\* the trend classification of a wow_pct given in tenths of a percent
TrendLabel(wow_pct) ==
  IF wow_pct = NullNum THEN "N/A"
  ELSE IF wow_pct[1] > 150 THEN "SPIKE"
  ELSE IF wow_pct[1] > 50 THEN "UP"
  ELSE IF wow_pct[1] < -100 THEN "DOWN"
  ELSE "FLAT"

\* the columns added to the sorted weekly frame: year, week, week_idx,
\* shift(1), the changes and the trend
WithChanges(weekly) ==
  [j \in DOMAIN weekly |->
     LET prev_volume == IF j = 1 THEN NullNum ELSE Num(weekly[j - 1].volume)
         wow_pct == WowPct(weekly[j].volume, prev_volume)
     IN [week_start |-> weekly[j].week_start,
         year |-> dt_year(weekly[j].week_start),
         week |-> dt_week(weekly[j].week_start),
         week_idx |-> WeekIdx(weekly[j].week_start),
         volume |-> weekly[j].volume,
         prev_volume |-> prev_volume,
         wow_change |-> IF prev_volume = NullNum THEN NullNum
                        ELSE Num(weekly[j].volume - prev_volume[1]),
         wow_pct |-> wow_pct,
         trend |-> TrendLabel(wow_pct)]]

\* select(['year', 'week', 'volume', 'wow_change', 'wow_pct', 'trend'])
SelectWeekly(weekly) ==
  [j \in DOMAIN weekly |->
     [year |-> weekly[j].year, week |-> weekly[j].week,
      volume |-> weekly[j].volume, wow_change |-> weekly[j].wow_change,
      wow_pct |-> weekly[j].wow_pct, trend |-> weekly[j].trend]]

\* the locals of a call that returns before the aggregation
NoLocal ==
  [date_col |-> <<>>,
   parse |-> [ok |-> FALSE, via |-> "none", fmt |-> 0, col |-> <<>>],
   weekly |-> <<>>]

\* a call without the len(df) == 0 return
NoParsedDatesUnchecked(d, p) == FALSE

\* len(df) == 0 after the rows with a null parsed date are filtered out
NoParsedDates(d, p) == FrameLen(d.rows) - NullCount(d, p.col) = 0

\* what one call can leave: the locals (date_col, the outcome of
\* _parse_dates, the weekly frame before the final select) and the return
get_weekly_aggregation(d, cache) ==
  LET date_col == get_column(cache, "date")
  IN IF date_col = <<>> \/ ~HasColumn(d, date_col[1])
     THEN {[local |-> NoLocal, ret |-> EmptyFrame]}
     ELSE LET p == parse_dates(d, date_col[1])
              early == [date_col |-> date_col, parse |-> p, weekly |-> <<>>]
          IN IF ~p.ok
             THEN {[local |-> early, ret |-> EmptyFrame]}
             ELSE IF NoParsedDates(d, p)
             THEN {[local |-> early, ret |-> EmptyFrame]}
             ELSE {[local |-> [date_col |-> date_col, parse |-> p,
                               weekly |-> WithChanges(s)],
                    ret |-> [shape |-> "weekly",
                             rows |-> SelectWeekly(WithChanges(s))]] :
                   s \in SortByWeekIdx(FillGaps(ObservedWeeks(d, p.col)))}

----------------------------------------------------------------------------
(* The grouped aggregations *)

\* the group key of a run: its cells in the grouping columns
KeyOf(run, cols) == [c \in DOMAIN cols |-> Cell(run, cols[c])]

\* group_by(cols).agg(pl.count()): one [key, count] per distinct key, here in
\* the order of first occurrence (polars leaves the order open, and every
\* caller sorts the groups next)
GroupCounts(rows, cols) ==
  LET firsts == {i \in DOMAIN rows :
                   \A j \in 1..(i - 1) : KeyOf(rows[j], cols) # KeyOf(rows[i], cols)}
      order == Ascending(firsts)
  IN [g \in DOMAIN order |->
        [key |-> KeyOf(rows[order[g]], cols),
         count |-> SumOver([i \in DOMAIN rows |-> rows[i].n],
                           {i \in DOMAIN rows :
                              KeyOf(rows[i], cols) = KeyOf(rows[order[g]], cols)})]]

\* filter(pl.col(column).is_not_null())
FilterNotNull(rows, column) ==
  SelectSeq(rows, LAMBDA r : Cell(r, column) # Null)

\* a sort on 'count' that forgets descending=True
SortByCountAsc(groups) ==
  SortFrames(groups, [g \in DOMAIN groups |-> groups[g].count])

\* sort('count', descending=True): the frames that can come out
SortByCountDesc(groups) ==
  SortFrames(groups, [g \in DOMAIN groups |-> -groups[g].count])

\* sort('volume', descending=True): the frames that can come out
SortByVolumeDesc(groups) ==
  SortFrames(groups, [g \in DOMAIN groups |-> -groups[g].volume])

\* (count / total * 100).round(2), in hundredths of a percent
Percentage(count, total) == RoundDiv(count * 10000, total)

\* get_top_n(column, n): the frames one call can return
get_top_n(d, column, n) ==
  IF ~HasColumn(d, column)
  THEN {EmptyFrame}
  ELSE {[shape |-> "top_n", rows |-> head_n(s, n)] :
        s \in SortByCountDesc(GroupCounts(FilterNotNull(d.rows, column), <<column>>))}

\* the total get_distribution divides by: len(self.df)
DistributionTotal(d, column) == FrameLen(d.rows)

\* get_distribution(column): the frames one call can return
get_distribution(d, column) ==
  IF ~HasColumn(d, column)
  THEN {EmptyFrame}
  ELSE LET total == DistributionTotal(d, column)
           groups == GroupCounts(FilterNotNull(d.rows, column), <<column>>)
           with_pct == [g \in DOMAIN groups |->
                          [key |-> groups[g].key, count |-> groups[g].count,
                           percentage |-> Percentage(groups[g].count, total)]]
       IN {[shape |-> "distribution", rows |-> s] : s \in SortByCountDesc(with_pct)}

\* Python truthiness of an Optional[str]: None and "" are false
Truthy(opt) == opt # <<>> /\ opt[1] # <<>>

\* pl.col(c).is_not_null() & pl.col(c).str.to_lowercase().str.contains(p)
ContainsFilter(rows, column, pattern) ==
  SelectSeq(rows, LAMBDA r : /\ Cell(r, column) # Null
                             /\ str_contains(pattern, Lower(Cell(r, column).s)))

\* get_grouped_analysis(group_cols, filter_col, filter_pattern); .str on a
\* column that is not text raises
get_grouped_analysis(d, group_cols, filter_col, filter_pattern) ==
  LET filtering == /\ Truthy(filter_col)
                   /\ Truthy(filter_pattern)
                   /\ HasColumn(d, filter_col[1])
      raises == filtering /\ Dtype(d, filter_col[1]) # "str"
      rows == IF filtering /\ ~raises
              THEN ContainsFilter(d.rows, filter_col[1], Lower(filter_pattern[1]))
              ELSE d.rows
      valid_cols == SelectSeq(group_cols, LAMBDA c : HasColumn(d, c))
      total == FrameLen(rows)
      groups == GroupCounts(rows, valid_cols)
      with_pct == [g \in DOMAIN groups |->
                     [key |-> groups[g].key, volume |-> groups[g].count,
                      pct_of_total |-> Percentage(groups[g].count, total)]]
  IN IF raises
     THEN {[shape |-> "raise", rows |-> <<>>]}
     ELSE IF valid_cols = <<>> \/ total = 0
     THEN {EmptyFrame}
     ELSE {[shape |-> "grouped", rows |-> s] : s \in SortByVolumeDesc(with_pct)}

\* the head(50) of render_crosstab_analysis
CrosstabLimit == 50

\* the crosstab frame of render_crosstab_analysis(df, categorical_cols) for
\* the selected row and column variables
render_crosstab_analysis(d, row_var, col_var) ==
  {[shape |-> "crosstab", rows |-> head_n(s, CrosstabLimit)] :
   s \in SortByCountDesc(GroupCounts(d.rows, <<row_var, col_var>>))}

----------------------------------------------------------------------------
(* DataProcessor.filter_sky_partners and get_sky_partner_count *)

\* the keyword of the partner filter
Sky == <<"s", "k", "y">>

\* a partner filter that forgets str.to_lowercase()
SkyRowsCaseSensitive(rows, partner_col) ==
  SelectSeq(rows, LAMBDA r : /\ Cell(r, partner_col) # Null
                             /\ str_contains(Sky, Cell(r, partner_col).s))

\* pl.col(partner_col).is_not_null() &
\* pl.col(partner_col).str.to_lowercase().str.contains('sky')
SkyRows(rows, partner_col) ==
  SelectSeq(rows, LAMBDA r : /\ Cell(r, partner_col) # Null
                             /\ str_contains(Sky, Lower(Cell(r, partner_col).s)))

\* filter_sky_partners(): the rows kept, the empty table when the partner
\* column is not resolved; .str on a column that is not text raises
filter_sky_partners(d, cache) ==
  LET partner_col == get_column(cache, "partner")
  IN IF ~Truthy(partner_col) \/ ~HasColumn(d, partner_col[1])
     THEN EmptyFrame
     ELSE IF Dtype(d, partner_col[1]) # "str"
     THEN [shape |-> "raise", rows |-> <<>>]
     ELSE [shape |-> "rows", rows |-> SkyRows(d.rows, partner_col[1])]

\* get_sky_partner_count(): len(self.filter_sky_partners())
get_sky_partner_count(d, cache) ==
  LET sky_df == filter_sky_partners(d, cache)
  IN IF sky_df.shape = "raise"
     THEN sky_df
     ELSE [shape |-> "count", value |-> FrameLen(sky_df.rows)]

----------------------------------------------------------------------------
(* TextAnalyzer: texts are sequences of characters *)

\* the keyword table of config.py, in its declaration order: per theme the
\* keywords and their weights
KEYWORDS ==
  <<
    [theme |-> "Cancellation",
     keywords |-> <<
         [kw |-> <<"c", "a", "n", "c", "e", "l">>, weight |-> 1],
         [kw |-> <<"u", "n", "s", "u", "b", "s", "c", "r", "i", "b", "e">>, weight |-> 1],
         [kw |-> <<"t", "e", "r", "m", "i", "n", "a", "t", "e">>, weight |-> 1],
         [kw |-> <<"h", "o", "w", " ", "t", "o", " ", "c", "a", "n", "c", "e", "l">>, weight |-> 2],
         [kw |-> <<"c", "a", "n", "n", "o", "t", " ", "c", "a", "n", "c", "e", "l">>, weight |-> 2],
         [kw |-> <<"u", "n", "a", "b", "l", "e", " ", "t", "o", " ", "c", "a", "n", "c", "e", "l">>, weight |-> 2],
         [kw |-> <<"s", "t", "o", "p", " ", "s", "u", "b", "s", "c", "r", "i", "p", "t", "i", "o", "n">>, weight |-> 2],
         [kw |-> <<"e", "n", "d", " ", "s", "u", "b", "s", "c", "r", "i", "p", "t", "i", "o", "n">>, weight |-> 2],
         [kw |-> <<"f", "r", "e", "e", " ", "t", "r", "i", "a", "l">>, weight |-> 1] >>],
    [theme |-> "Billing",
     keywords |-> <<
         [kw |-> <<"r", "e", "f", "u", "n", "d">>, weight |-> 2],
         [kw |-> <<"c", "h", "a", "r", "g", "e", "d">>, weight |-> 2],
         [kw |-> <<"u", "n", "e", "x", "p", "e", "c", "t", "e", "d", " ", "c", "h", "a", "r", "g", "e">>, weight |-> 3],
         [kw |-> <<"d", "o", "u", "b", "l", "e", " ", "b", "i", "l", "l">>, weight |-> 3],
         [kw |-> <<"c", "h", "a", "r", "g", "e", " ", "a", "f", "t", "e", "r", " ", "c", "a", "n", "c", "e", "l">>, weight |-> 3],
         [kw |-> <<"b", "i", "l", "l", "i", "n", "g">>, weight |-> 1],
         [kw |-> <<"i", "n", "v", "o", "i", "c", "e">>, weight |-> 1],
         [kw |-> <<"m", "o", "n", "e", "y", " ", "b", "a", "c", "k">>, weight |-> 2] >>],
    [theme |-> "Login",
     keywords |-> <<
         [kw |-> <<"p", "a", "s", "s", "w", "o", "r", "d">>, weight |-> 2],
         [kw |-> <<"f", "o", "r", "g", "o", "t", " ", "p", "a", "s", "s", "w", "o", "r", "d">>, weight |-> 3],
         [kw |-> <<"r", "e", "s", "e", "t", " ", "p", "a", "s", "s", "w", "o", "r", "d">>, weight |-> 3],
         [kw |-> <<"c", "a", "n", "n", "o", "t", " ", "l", "o", "g", "i", "n">>, weight |-> 3],
         [kw |-> <<"c", "a", "n", "'", "t", " ", "l", "o", "g", " ", "i", "n">>, weight |-> 3],
         [kw |-> <<"u", "n", "a", "b", "l", "e", " ", "t", "o", " ", "l", "o", "g", "i", "n">>, weight |-> 3],
         [kw |-> <<"l", "o", "c", "k", "e", "d", " ", "o", "u", "t">>, weight |-> 3],
         [kw |-> <<"r", "e", "s", "e", "t", " ", "e", "m", "a", "i", "l">>, weight |-> 2],
         [kw |-> <<"e", "m", "a", "i", "l", " ", "n", "o", "t", " ", "r", "e", "c", "e", "i", "v", "e", "d">>, weight |-> 2] >>],
    [theme |-> "Technical",
     keywords |-> <<
         [kw |-> <<"n", "o", "t", " ", "w", "o", "r", "k", "i", "n", "g">>, weight |-> 2],
         [kw |-> <<"a", "p", "p", " ", "c", "r", "a", "s", "h">>, weight |-> 3],
         [kw |-> <<"b", "u", "f", "f", "e", "r", "i", "n", "g">>, weight |-> 2],
         [kw |-> <<"s", "t", "r", "e", "a", "m", "i", "n", "g">>, weight |-> 1],
         [kw |-> <<"p", "l", "a", "y", "b", "a", "c", "k">>, weight |-> 2],
         [kw |-> <<"e", "r", "r", "o", "r", " ", "c", "o", "d", "e">>, weight |-> 2],
         [kw |-> <<"v", "i", "d", "e", "o", " ", "n", "o", "t", " ", "l", "o", "a", "d">>, weight |-> 2],
         [kw |-> <<"a", "p", "p", " ", "n", "o", "t", " ", "l", "o", "a", "d">>, weight |-> 3],
         [kw |-> <<"f", "r", "o", "z", "e", "n">>, weight |-> 2] >>],
    [theme |-> "Payment",
     keywords |-> <<
         [kw |-> <<"c", "a", "r", "d", " ", "d", "e", "c", "l", "i", "n", "e", "d">>, weight |-> 3],
         [kw |-> <<"p", "a", "y", "m", "e", "n", "t", " ", "f", "a", "i", "l", "e", "d">>, weight |-> 3],
         [kw |-> <<"p", "a", "y", "m", "e", "n", "t", " ", "r", "e", "j", "e", "c", "t", "e", "d">>, weight |-> 3],
         [kw |-> <<"u", "p", "d", "a", "t", "e", " ", "p", "a", "y", "m", "e", "n", "t">>, weight |-> 2],
         [kw |-> <<"c", "a", "r", "d", " ", "e", "r", "r", "o", "r">>, weight |-> 2],
         [kw |-> <<"p", "a", "y", "m", "e", "n", "t", " ", "m", "e", "t", "h", "o", "d">>, weight |-> 2] >>],
    [theme |-> "Partner",
     keywords |-> <<
         [kw |-> <<"a", "m", "a", "z", "o", "n">>, weight |-> 1],
         [kw |-> <<"a", "p", "p", "l", "e">>, weight |-> 1],
         [kw |-> <<"g", "o", "o", "g", "l", "e">>, weight |-> 1],
         [kw |-> <<"s", "k", "y">>, weight |-> 2],
         [kw |-> <<"p", "a", "r", "t", "n", "e", "r">>, weight |-> 1] >>],
    [theme |-> "Content",
     keywords |-> <<
         [kw |-> <<"u", "f", "c">>, weight |-> 3],
         [kw |-> <<"y", "e", "l", "l", "o", "w", "s", "t", "o", "n", "e">>, weight |-> 3],
         [kw |-> <<"c", "o", "n", "t", "e", "n", "t", " ", "m", "i", "s", "s", "i", "n", "g">>, weight |-> 2],
         [kw |-> <<"s", "h", "o", "w", " ", "m", "i", "s", "s", "i", "n", "g">>, weight |-> 2],
         [kw |-> <<"e", "p", "i", "s", "o", "d", "e">>, weight |-> 1],
         [kw |-> <<"s", "e", "a", "s", "o", "n">>, weight |-> 1] >>]
  >>
\* character classes of the regular expressions, on lowercased text
Letters == Range(LowerLetters)

Digits == {"0", "1", "2", "3", "4", "5", "6", "7", "8", "9"}

WordChars == Letters \cup Digits \cup {"_"}

Whitespace == {" ", "\t", "\n"}

\* \b between t[i] and t[i + 1]: exactly one side is a word character
WordBoundary(t, i) ==
  (i \in DOMAIN t /\ t[i] \in WordChars) # (i + 1 \in DOMAIN t /\ t[i + 1] \in WordChars)

\* the literal lit stands in t from position i on
StartsAt(t, i, lit) ==
  /\ i + Len(lit) - 1 <= Len(t)
  /\ \A j \in DOMAIN lit : t[i + j - 1] = lit[j]

\* an e-mail pattern that matches nothing
EmailMatchEndNever(t, i) == 0

\* EMAIL_PATTERN \b[A-Za-z0-9._%+-]+@[A-Za-z0-9.-]+\.[A-Z|a-z]{2,}\b at
\* position i of t: the position of the last character matched, 0 for no
\* match.  The local part runs up to the first @; the greedy domain and
\* top-level parts end as far to the right as a match allows.
EmailMatchEnd(t, i) ==
  LET local_chars == Letters \cup Digits \cup {".", "_", "%", "+", "-"}
      domain_chars == Letters \cup Digits \cup {".", "-"}
      tld_chars == Letters \cup {"|"}
      ats == {a \in (i + 1)..Len(t) :
                /\ t[a] = "@"
                /\ \A j \in i..(a - 1) : t[j] \in local_chars}
      ends == {e \in (i + 1)..Len(t) :
                 \E a \in ats : \E d \in (a + 2)..(e - 2) :
                   /\ t[d] = "."
                   /\ \A j \in (a + 1)..(d - 1) : t[j] \in domain_chars
                   /\ \A j \in (d + 1)..e : t[j] \in tld_chars
                   /\ WordBoundary(t, e)}
  IN IF WordBoundary(t, i - 1) /\ ends # {} THEN SetMax(ends) ELSE 0

\* CLEANUP_PATTERNS[0] <external\s*email> at position i of t
ExternalEmailMatchEnd(t, i) ==
  LET open == <<"<", "e", "x", "t", "e", "r", "n", "a", "l">>
      close == <<"e", "m", "a", "i", "l", ">">>
      after == i + Len(open)
      k == SetMin({j \in after..(Len(t) + 1) : j > Len(t) \/ t[j] \notin Whitespace})
  IN IF StartsAt(t, i, open) /\ StartsAt(t, k, close) THEN k + Len(close) - 1 ELSE 0

\* CLEANUP_PATTERNS[1] sent from my (iphone|ipad|android) at position i of t
SentFromMyMatchEnd(t, i) ==
  LET lead == <<"s", "e", "n", "t", " ", "f", "r", "o", "m", " ", "m", "y", " ">>
      devices == { <<"i", "p", "h", "o", "n", "e">>, <<"i", "p", "a", "d">>,
                   <<"a", "n", "d", "r", "o", "i", "d">> }
      hits == {dev \in devices : StartsAt(t, i, lead \o dev)}
  IN IF hits = {} THEN 0
     ELSE i + Len(lead) + Len(CHOOSE dev \in hits : TRUE) - 1

\* the patterns clean_text substitutes, in its order
EMAIL_PATTERN == "email"

CLEANUP_PATTERNS == <<"external_email", "sent_from_my">>

MatchEnd(pattern, t, i) ==
  CASE pattern = "email" -> EmailMatchEnd(t, i)
    [] pattern = "external_email" -> ExternalEmailMatchEnd(t, i)
    [] pattern = "sent_from_my" -> SentFromMyMatchEnd(t, i)

\* pattern.sub(' ', t) from position i on: the leftmost matches, not
\* overlapping, each replaced by one space
RECURSIVE re_sub(_, _, _)
re_sub(pattern, t, i) ==
  IF i > Len(t) THEN <<>>
  ELSE IF MatchEnd(pattern, t, i) > 0
  THEN <<" ">> \o re_sub(pattern, t, MatchEnd(pattern, t, i) + 1)
  ELSE <<t[i]>> \o re_sub(pattern, t, i + 1)

\* ' '.join(t.split()): the whitespace runs inside become one space, those at
\* the ends go
JoinSplit(t) ==
  LET inner(i) == /\ t[i] \in Whitespace
                  /\ i > 1 /\ t[i - 1] \notin Whitespace
                  /\ \E j \in (i + 1)..Len(t) : t[j] \notin Whitespace
      kept == SelectSeq([i \in DOMAIN t |-> i],
                        LAMBDA i : t[i] \notin Whitespace \/ inner(i))
  IN [k \in DOMAIN kept |-> IF t[kept[k]] \in Whitespace THEN " " ELSE t[kept[k]]]

\* clean_text(text): '' for None and for what is not a string
clean_text(text) ==
  IF text.k # "str" THEN <<>>
  ELSE LET lowered == Lower(text.s)
           no_email == re_sub(EMAIL_PATTERN, lowered, 1)
           no_external == re_sub(CLEANUP_PATTERNS[1], no_email, 1)
           no_signature == re_sub(CLEANUP_PATTERNS[2], no_external, 1)
       IN JoinSplit(no_signature)

\* a score that takes the heaviest matching keyword instead of the sum
ThemeScoreHeaviest(keywords, cleaned) ==
  LET hits == {j \in DOMAIN keywords : Contains(keywords[j].kw, cleaned)}
  IN IF hits = {} THEN 0 ELSE SetMax({keywords[j].weight : j \in hits})

\* the score of one theme: scores[theme] += weight for each keyword in cleaned
ThemeScore(keywords, cleaned) ==
  SumOver([j \in DOMAIN keywords |-> keywords[j].weight],
          {j \in DOMAIN keywords : Contains(keywords[j].kw, cleaned)})

\* a maximum that keeps the last of the highest scores
DominantLast(scores) ==
  SetMax({k \in DOMAIN scores : scores[k] = SetMax(Range(scores))})

\* max(scores.items(), key=...): the first, in the order of the table, of the
\* themes with the highest score
Dominant(scores) ==
  SetMin({k \in DOMAIN scores : scores[k] = SetMax(Range(scores))})

\* a zero test that is never true
NoThemeScoresNever(scores) == FALSE

\* max_score == 0
NoThemeScores(scores) == SetMax(Range(scores)) = 0

Unknown == [theme |-> "Unknown", score |-> 0]

\* categorize_text(text): the pair returned and the locals cleaned and scores
categorize_text(text) ==
  LET cleaned == clean_text(text)
      scores == [k \in DOMAIN KEYWORDS |-> ThemeScore(KEYWORDS[k].keywords, cleaned)]
      ret == IF cleaned = <<>> \/ NoThemeScores(scores)
             THEN Unknown
             ELSE [theme |-> KEYWORDS[Dominant(scores)].theme,
                   score |-> scores[Dominant(scores)]]
  IN [ret |-> ret,
      local |-> [cleaned |-> cleaned,
                 scores |-> IF cleaned = <<>> THEN <<>> ELSE scores]]

----------------------------------------------------------------------------
(* TextAnalyzer.get_regional_themes *)

\* the columns analyze_dataframe adds
ColTheme == <<"t", "h", "e", "m", "e">>

ColThemeScore == <<"t", "h", "e", "m", "e", "_", "s", "c", "o", "r", "e">>

\* a text cell that holds a theme name, carried whole
ThemeCell(theme) == Str(<<theme>>)

\* a strength label whose thresholds are inclusive
StrengthInclusive(count, country_total) ==
  IF count * 100 >= 30 * country_total THEN "DOMINANT"
  ELSE IF count * 100 >= 20 * country_total THEN "HIGH"
  ELSE IF count * 100 >= 10 * country_total THEN "MODERATE"
  ELSE "LOW"

\* pl.when(count / country_total > 0.30).then('DOMINANT').when(... > 0.20)
\* .then('HIGH').when(... > 0.10).then('MODERATE').otherwise('LOW'): the
\* quotient of two row counts is above a threshold exactly when the fraction is
Strength(count, country_total) ==
  IF count * 100 > 30 * country_total THEN "DOMINANT"
  ELSE IF count * 100 > 20 * country_total THEN "HIGH"
  ELSE IF count * 100 > 10 * country_total THEN "MODERATE"
  ELSE "LOW"

\* theme_dist of one country: the frames that can come out
ThemeDist(country_df) ==
  LET country_total == FrameLen(country_df)
      groups == GroupCounts(country_df, <<ColTheme>>)
      labelled == [g \in DOMAIN groups |->
                     [key |-> groups[g].key, count |-> groups[g].count,
                      percentage |-> Percentage(groups[g].count, country_total),
                      strength |-> Strength(groups[g].count, country_total)]]
  IN SortByCountDesc(labelled)

\* the loop over top_countries: result[str(country)] = theme_dist, in the
\* order of insertion
RECURSIVE CountryDists(_, _, _)
CountryDists(df_valid, country_col, top_countries) ==
  IF top_countries = <<>> THEN {<<>>}
  ELSE LET country == top_countries[1].key[1]
           country_df == SelectSeq(df_valid, LAMBDA r : Cell(r, country_col) = country)
       IN IF FrameLen(country_df) = 0
          THEN CountryDists(df_valid, country_col, Tail(top_countries))
          ELSE {<<[country |-> country, theme_dist |-> t]>> \o rest :
                  t \in ThemeDist(country_df),
                  rest \in CountryDists(df_valid, country_col, Tail(top_countries))}

\* get_regional_themes(df, country_col, top_n): the dictionaries one call can
\* return, {} when a column is missing
get_regional_themes(d, country_col, top_n) ==
  IF ~HasColumn(d, ColTheme) \/ ~HasColumn(d, country_col)
  THEN {[shape |-> "regional", rows |-> <<>>]}
  ELSE LET df_valid == FilterNotNull(d.rows, country_col)
           tops == {head_n(s, top_n) :
                    s \in SortByCountDesc(GroupCounts(df_valid, <<country_col>>))}
       IN {[shape |-> "regional", rows |-> r] :
           r \in UNION {CountryDists(df_valid, country_col, top) : top \in tops}}

----------------------------------------------------------------------------
(* analyze_region_themes: the theme narratives of a region *)

\* THEME_NARRATIVES of text_analytics_module.py, in its declaration order:
\* per theme the keywords (titles and descriptions are display text)
THEME_NARRATIVES ==
  <<
    [theme |-> "Cancellation",
     keywords |-> <<
         <<"c", "a", "n", "c", "e", "l">>,
         <<"u", "n", "s", "u", "b", "s", "c", "r", "i", "b", "e">>,
         <<"t", "e", "r", "m", "i", "n", "a", "t", "e">>,
         <<"s", "t", "o", "p", " ", "s", "u", "b", "s", "c", "r", "i", "p", "t", "i", "o", "n">>,
         <<"e", "n", "d", " ", "s", "u", "b", "s", "c", "r", "i", "p", "t", "i", "o", "n">>,
         <<"f", "r", "e", "e", " ", "t", "r", "i", "a", "l">>,
         <<"h", "o", "w", " ", "t", "o", " ", "c", "a", "n", "c", "e", "l">>,
         <<"c", "a", "n", "n", "o", "t", " ", "c", "a", "n", "c", "e", "l">> >>],
    [theme |-> "Billing",
     keywords |-> <<
         <<"r", "e", "f", "u", "n", "d">>,
         <<"c", "h", "a", "r", "g", "e", "d">>,
         <<"u", "n", "e", "x", "p", "e", "c", "t", "e", "d", " ", "c", "h", "a", "r", "g", "e">>,
         <<"d", "o", "u", "b", "l", "e", " ", "b", "i", "l", "l">>,
         <<"c", "h", "a", "r", "g", "e", " ", "a", "f", "t", "e", "r", " ", "c", "a", "n", "c", "e", "l">>,
         <<"b", "i", "l", "l", "i", "n", "g">>,
         <<"i", "n", "v", "o", "i", "c", "e">>,
         <<"m", "o", "n", "e", "y", " ", "b", "a", "c", "k">>,
         <<"o", "v", "e", "r", "c", "h", "a", "r", "g", "e", "d">> >>],
    [theme |-> "Login",
     keywords |-> <<
         <<"p", "a", "s", "s", "w", "o", "r", "d">>,
         <<"f", "o", "r", "g", "o", "t", " ", "p", "a", "s", "s", "w", "o", "r", "d">>,
         <<"r", "e", "s", "e", "t", " ", "p", "a", "s", "s", "w", "o", "r", "d">>,
         <<"c", "a", "n", "n", "o", "t", " ", "l", "o", "g", "i", "n">>,
         <<"c", "a", "n", "'", "t", " ", "l", "o", "g", " ", "i", "n">>,
         <<"l", "o", "c", "k", "e", "d", " ", "o", "u", "t">>,
         <<"r", "e", "s", "e", "t", " ", "e", "m", "a", "i", "l">>,
         <<"e", "m", "a", "i", "l", " ", "n", "o", "t", " ", "r", "e", "c", "e", "i", "v", "e", "d">>,
         <<"a", "c", "c", "e", "s", "s">> >>],
    [theme |-> "Technical",
     keywords |-> <<
         <<"n", "o", "t", " ", "w", "o", "r", "k", "i", "n", "g">>,
         <<"a", "p", "p", " ", "c", "r", "a", "s", "h">>,
         <<"b", "u", "f", "f", "e", "r", "i", "n", "g">>,
         <<"s", "t", "r", "e", "a", "m", "i", "n", "g">>,
         <<"p", "l", "a", "y", "b", "a", "c", "k">>,
         <<"e", "r", "r", "o", "r", " ", "c", "o", "d", "e">>,
         <<"v", "i", "d", "e", "o", " ", "n", "o", "t", " ", "l", "o", "a", "d">>,
         <<"f", "r", "o", "z", "e", "n">>,
         <<"b", "l", "a", "c", "k", " ", "s", "c", "r", "e", "e", "n">> >>],
    [theme |-> "Payment",
     keywords |-> <<
         <<"c", "a", "r", "d", " ", "d", "e", "c", "l", "i", "n", "e", "d">>,
         <<"p", "a", "y", "m", "e", "n", "t", " ", "f", "a", "i", "l", "e", "d">>,
         <<"p", "a", "y", "m", "e", "n", "t", " ", "r", "e", "j", "e", "c", "t", "e", "d">>,
         <<"u", "p", "d", "a", "t", "e", " ", "p", "a", "y", "m", "e", "n", "t">>,
         <<"c", "a", "r", "d", " ", "e", "r", "r", "o", "r">>,
         <<"p", "a", "y", "m", "e", "n", "t", " ", "m", "e", "t", "h", "o", "d">>,
         <<"c", "a", "r", "d", " ", "e", "x", "p", "i", "r", "e", "d">> >>],
    [theme |-> "Partner",
     keywords |-> <<
         <<"a", "m", "a", "z", "o", "n">>,
         <<"a", "p", "p", "l", "e">>,
         <<"g", "o", "o", "g", "l", "e">>,
         <<"s", "k", "y">>,
         <<"p", "a", "r", "t", "n", "e", "r">>,
         <<"r", "o", "k", "u">>,
         <<"p", "r", "o", "v", "i", "d", "e", "r">>,
         <<"b", "u", "n", "d", "l", "e">>,
         <<"t", "h", "i", "r", "d", " ", "p", "a", "r", "t", "y">> >>],
    [theme |-> "Content",
     keywords |-> <<
         <<"u", "f", "c">>,
         <<"y", "e", "l", "l", "o", "w", "s", "t", "o", "n", "e">>,
         <<"c", "o", "n", "t", "e", "n", "t", " ", "m", "i", "s", "s", "i", "n", "g">>,
         <<"s", "h", "o", "w", " ", "m", "i", "s", "s", "i", "n", "g">>,
         <<"e", "p", "i", "s", "o", "d", "e">>,
         <<"s", "e", "a", "s", "o", "n">>,
         <<"n", "o", "t", " ", "a", "v", "a", "i", "l", "a", "b", "l", "e">>,
         <<"w", "h", "e", "r", "e", " ", "i", "s">>,
         <<"c", "a", "n", "n", "o", "t", " ", "f", "i", "n", "d">> >>],
    [theme |-> "Account",
     keywords |-> <<
         <<"a", "c", "c", "o", "u", "n", "t">>,
         <<"p", "r", "o", "f", "i", "l", "e">>,
         <<"e", "m", "a", "i", "l", " ", "c", "h", "a", "n", "g", "e">>,
         <<"u", "p", "d", "a", "t", "e", " ", "a", "c", "c", "o", "u", "n", "t">>,
         <<"d", "e", "l", "e", "t", "e", " ", "a", "c", "c", "o", "u", "n", "t">>,
         <<"r", "e", "m", "o", "v", "e", " ", "a", "c", "c", "o", "u", "n", "t">>,
         <<"s", "u", "b", "s", "c", "r", "i", "p", "t", "i", "o", "n", " ", "s", "t", "a", "t", "u", "s">> >>]
  >>
\* str(row.get(desc_col, '') or '').lower(): the text of a description cell;
\* a number holds no letter and reads as the one character "#"
RowText(cell) ==
  IF cell.k = "str" THEN Lower(cell.s)
  ELSE IF cell.k = "int" /\ cell.i # 0 THEN <<"#">>
  ELSE <<>>

\* the themes of the table with a keyword in the text, by position
NarrativeHits(text) ==
  {k \in DOMAIN THEME_NARRATIVES :
     \E j \in DOMAIN THEME_NARRATIVES[k].keywords :
       Contains(THEME_NARRATIVES[k].keywords[j], text)}

\* the counter one row adds to: the first theme of the table with a keyword
\* in the text, 'Other' for an empty text and when no theme has one
NarrativeTheme(cell) ==
  LET text == RowText(cell)
  IN IF text = <<>> \/ NarrativeHits(text) = {}
     THEN "Other"
     ELSE THEME_NARRATIVES[SetMin(NarrativeHits(text))].theme

\* round(x, 0) of Python on the fraction a / b: halves go to the even integer
RoundHalfEven(a, b) ==
  LET q == a \div b
      r == a % b
  IN IF 2 * r < b THEN q
     ELSE IF 2 * r > b THEN q + 1
     ELSE IF q % 2 = 0 THEN q ELSE q + 1

\* list.sort(key=percentage, reverse=True): stable, equal keys keep their order
SortByPercentageDesc(results) ==
  LET rank(i) == Cardinality({j \in DOMAIN results :
                     \/ results[j].percentage > results[i].percentage
                     \/ results[j].percentage = results[i].percentage /\ j < i})
  IN [p \in DOMAIN results |->
        results[CHOOSE i \in DOMAIN results : rank(i) + 1 = p]]

\* analyze_region_themes(df, desc_col, total_cases) on the description cells
\* of the region: the list returned and the locals, assigned being the
\* counter each row added to
analyze_region_themes(cells) ==
  LET assigned == [i \in DOMAIN cells |-> NarrativeTheme(cells[i])]
      count(theme) == Cardinality({i \in DOMAIN cells : assigned[i] = theme})
      total == Len(cells)
      named == SelectSeq([k \in DOMAIN THEME_NARRATIVES |-> THEME_NARRATIVES[k].theme],
                         LAMBDA theme : count(theme) > 0)
      results == [k \in DOMAIN named |->
                    [theme |-> named[k], count |-> count(named[k]),
                     percentage |-> RoundHalfEven(count(named[k]) * 100, total)]]
  IN [ret |-> IF total = 0 THEN <<>> ELSE SortByPercentageDesc(results),
      local |-> [assigned |-> assigned]]

----------------------------------------------------------------------------
(* The operations that read the whole dataset *)

\* get_summary_stats(): the row and column counts (the estimated size in
\* megabytes depends on the storage and is left out)
get_summary_stats(d) ==
  [shape |-> "stats", total_rows |-> FrameLen(d.rows), total_columns |-> Len(d.columns)]

\* get_sky_partner_percentage(): 0.0 for a dataset without rows, else
\* round(count / total * 100, 2) in hundredths of a percent
get_sky_partner_percentage(d, cache) ==
  LET total == FrameLen(d.rows)
      sky == get_sky_partner_count(d, cache)
  IN IF total = 0 THEN [shape |-> "percentage", value |-> 0]
     ELSE IF sky.shape = "raise" THEN sky
     ELSE [shape |-> "percentage", value |-> Percentage(sky.value, total)]

\* a with_columns that writes the columns into the table it is called on
with_columns_in_place(d, names, dtypes, cells) ==
  LET out == [columns |-> d.columns \o SelectSeq(names, LAMBDA c : ~HasColumn(d, c)),
              dtypes |-> dtypes @@ d.dtypes,
              rows |-> [i \in DOMAIN d.rows |->
                          [n |-> d.rows[i].n, c |-> cells[i] @@ d.rows[i].c]]]
  IN [self |-> out, out |-> out]

\* DataFrame.with_columns(...): out is a new table with the columns of d and
\* the named ones; self is the table it was called on, left as it was
with_columns(d, names, dtypes, cells) ==
  LET out == [columns |-> d.columns \o SelectSeq(names, LAMBDA c : ~HasColumn(d, c)),
              dtypes |-> dtypes @@ d.dtypes,
              rows |-> [i \in DOMAIN d.rows |->
                          [n |-> d.rows[i].n, c |-> cells[i] @@ d.rows[i].c]]]
  IN [self |-> d, out |-> out]

\* the cell categorize_row and score_row read: text_col unless it is null or
\* '' and a fallback column is given
AnalysisCell(d, run, text_col, fallback_col) ==
  IF Truthy(fallback_col) /\ HasColumn(d, fallback_col[1])
  THEN IF Cell(run, text_col) # Null /\ Cell(run, text_col) # Str(<<>>)
       THEN Cell(run, text_col)
       ELSE Cell(run, fallback_col[1])
  ELSE Cell(run, text_col)

\* categorize_row and score_row: the theme and theme_score cells of a verdict
\* of categorize_text
ThemeCells(verdict) ==
  (ColTheme :> ThemeCell(verdict.theme) @@ ColThemeScore :> IntCell(verdict.score))

\* the table analyze_dataframe returns, and the one it was handed
Tagged(r) ==
  [self |-> r.self,
   ret |-> [shape |-> "tagged", columns |-> r.out.columns,
            dtypes |-> r.out.dtypes, rows |-> r.out.rows]]

\* analyze_dataframe(df, text_col, fallback_col) on text columns: ret is the
\* table returned, with theme and theme_score added (map_elements leaves a
\* null where the text is null; _combined_text is added and dropped again),
\* self the table the caller handed in
analyze_dataframe(d, text_col, fallback_col) ==
  IF ~HasColumn(d, text_col)
  THEN [self |-> d, ret |-> [shape |-> "raise", rows |-> <<>>]]
  ELSE LET tagged(run) ==
             LET cell == AnalysisCell(d, run, text_col, fallback_col)
             IN IF cell = Null
                THEN (ColTheme :> Null @@ ColThemeScore :> Null)
                ELSE ThemeCells(categorize_text(cell).ret)
       IN Tagged(with_columns(d, <<ColTheme, ColThemeScore>>,
                              (ColTheme :> "str" @@ ColThemeScore :> "int"),
                              [i \in DOMAIN d.rows |-> tagged(d.rows[i])]))

----------------------------------------------------------------------------
(* render_root_cause_analysis: the issue table and its summary metrics *)

\* SEVERITY_THRESHOLDS of config.py, in percent
SEVERITY_THRESHOLDS == [critical |-> 15, high |-> 8, medium |-> 4]

\* the severity of an impact given in hundredths of a percent
Severity(pct_impact) ==
  IF pct_impact > SEVERITY_THRESHOLDS.critical * 100 THEN "CRITICAL"
  ELSE IF pct_impact > SEVERITY_THRESHOLDS.high * 100 THEN "HIGH"
  ELSE IF pct_impact > SEVERITY_THRESHOLDS.medium * 100 THEN "MEDIUM"
  ELSE "LOW"

\* the metrics render_root_cause_analysis(df, config) computes before it
\* draws: the issue table with pct_impact and severity, the volume of the
\* three largest issues, and round(top_3_volume / total_cases * 100, 1) in
\* tenths of a percent, a Python division that raises on total_cases = 0
render_root_cause_analysis(d, cache) ==
  LET total_cases == FrameLen(d.rows)
      subcat_col == get_column(cache, "subcategory")
      cat_col == get_column(cache, "category")
      issue_col == IF Truthy(subcat_col) THEN subcat_col ELSE cat_col
      groups == GroupCounts(FilterNotNull(d.rows, issue_col[1]), <<issue_col[1]>>)
      issues == [g \in DOMAIN groups |->
                   [key |-> groups[g].key, volume |-> groups[g].count,
                    pct_impact |-> Percentage(groups[g].count, total_cases),
                    severity |-> Severity(Percentage(groups[g].count, total_cases))]]
      top_3_volume(s) == SumOver([j \in DOMAIN s |-> s[j].volume], DOMAIN head_n(s, 3))
  IN IF ~Truthy(issue_col)
     THEN {[shape |-> "warning", rows |-> <<>>]}
     ELSE IF total_cases = 0
     THEN {[shape |-> "raise", rows |-> <<>>, error |-> "ZeroDivisionError"]}
     ELSE {[shape |-> "root_cause", rows |-> s,
            top_3_volume |-> top_3_volume(s),
            top_3_pct |-> RoundHalfEven(top_3_volume(s) * 1000, total_cases)] :
           s \in SortByVolumeDesc(issues)}

----------------------------------------------------------------------------
(* PIIRedactor: redact_text and redact_dataframe *)

\* PLACEHOLDERS['EMAIL']
EmailPlaceholder ==
  <<"[", "E", "M", "A", "I", "L", "_", "R", "E", "D", "A", "C", "T", "E", "D", "]">>

\* PATTERNS['EMAIL'].sub(PLACEHOLDERS['EMAIL'], t) from position i on: the
\* pattern is the e-mail pattern of the text analyzer with re.IGNORECASE, so
\* it matches where that one matches the lowercased text
RECURSIVE RedactEmails(_, _)
RedactEmails(t, i) ==
  IF i > Len(t) THEN <<>>
  ELSE IF EmailMatchEnd(Lower(t), i) > 0
  THEN EmailPlaceholder \o RedactEmails(t, EmailMatchEnd(Lower(t), i) + 1)
  ELSE <<t[i]>> \o RedactEmails(t, i + 1)

\* redact_text(text) on a text cell: a blank text is returned as it is; the
\* phone, card, address and name patterns need a digit or a salutation, which
\* the descriptions of the datasets do not hold
redact_text(cell) ==
  IF \A i \in DOMAIN cell.s : cell.s[i] \in Whitespace
  THEN cell
  ELSE Str(RedactEmails(cell.s, 1))

\* a redaction that writes the redacted columns after the others
redact_dataframe_appending(d, columns) ==
  LET cols == {c \in Range(columns) : HasColumn(d, c)}
      kept == SelectSeq(d.columns, LAMBDA c : c \notin cols)
      moved == SelectSeq(d.columns, LAMBDA c : c \in cols)
  IN IF \E c \in cols : Dtype(d, c) # "str"
     THEN {[shape |-> "raise", rows |-> <<>>]}
     ELSE {[shape |-> "table", columns |-> kept \o moved, dtypes |-> d.dtypes,
            rows |-> [i \in DOMAIN d.rows |->
                        [n |-> d.rows[i].n,
                         c |-> [c \in DOMAIN d.rows[i].c |->
                                  IF c \in cols /\ d.rows[i].c[c] # Null
                                  THEN redact_text(d.rows[i].c[c])
                                  ELSE d.rows[i].c[c]]]]]}

\* redact_dataframe(df, columns): the outcomes of the pass.  Each named
\* column is replaced, under its own identifier and in its place, by
\* map_elements(redact_text, return_dtype=pl.Utf8), which leaves nulls.  On a
\* column that is not text redact_text hands back the value itself, not a
\* string: map_elements then raises or yields nulls, depending on the polars
\* build.
redact_dataframe(d, columns) ==
  LET cols == {c \in Range(columns) : HasColumn(d, c)}
      redacted ==
        [shape |-> "table", columns |-> d.columns,
         dtypes |-> [c \in DOMAIN d.dtypes |-> IF c \in cols THEN "str" ELSE d.dtypes[c]],
         rows |-> [i \in DOMAIN d.rows |->
                     [n |-> d.rows[i].n,
                      c |-> [c \in DOMAIN d.rows[i].c |->
                               IF c \notin cols \/ d.rows[i].c[c] = Null
                               THEN d.rows[i].c[c]
                               ELSE IF Dtype(d, c) # "str" THEN Null
                               ELSE redact_text(d.rows[i].c[c])]]]]
  IN IF \E c \in cols : Dtype(d, c) # "str"
     THEN {[shape |-> "raise", rows |-> <<>>], redacted}
     ELSE {redacted}

----------------------------------------------------------------------------
(* app.py: load_data and the steps of main() *)

\* str.endswith
EndsWith(s, suffix) ==
  /\ Len(s) >= Len(suffix)
  /\ SubSeq(s, Len(s) - Len(suffix) + 1, Len(s)) = suffix

\* the extensions load_data reads
Readable ==
  { <<".", "c", "s", "v">>, <<".", "x", "l", "s", "x">>, <<".", "x", "l", "s">>,
    <<".", "p", "a", "r", "q", "u", "e", "t">> }

\* load_data(uploaded_file): the table the reader returns; None for a name
\* without a readable extension and when the reader raises (content is Null)
load_data(uploaded_file) ==
  IF \E ext \in Readable : EndsWith(Lower(uploaded_file.name), ext)
  THEN uploaded_file.content
  ELSE Null

\* an upload step that reloads whenever a file is in the uploader
upload_step_always(session, uploaded_file) ==
  IF uploaded_file # <<>> /\ load_data(uploaded_file[1]) # Null
  THEN [data |-> load_data(uploaded_file[1]),
        filename |-> <<uploaded_file[1].name>>,
        pii_redacted |-> FALSE]
  ELSE session

\* lines 286-294 of main(): the session state after the upload section
upload_step(session, uploaded_file) ==
  IF /\ uploaded_file # <<>>
     /\ session.filename # <<uploaded_file[1].name>>
     /\ load_data(uploaded_file[1]) # Null
  THEN [data |-> load_data(uploaded_file[1]),
        filename |-> <<uploaded_file[1].name>>,
        pii_redacted |-> FALSE]
  ELSE session

\* desc_cols of the privacy section: the columns at the positions of
\* description and description_translated, where the dataset is wide enough
desc_cols(columns) ==
  LET wanted == <<"description", "description_translated">>
      there == SelectSeq(wanted, LAMBDA name : PositionalIndex(name) < Len(columns))
  IN [k \in DOMAIN there |-> columns[PositionalIndex(there[k]) + 1]]

\* lines 307-326 of main(): the outcomes of the privacy section, each the
\* session state it leaves and what the redactor did; an exception of the
\* pass is caught and reported as a warning
privacy_step(session, enable_pii) ==
  IF ~enable_pii \/ session.data = Null \/ session.pii_redacted
  THEN {[session |-> session, pass |-> "skipped"]}
  ELSE IF desc_cols(session.data.columns) = <<>>
  THEN {[session |-> session, pass |-> "no columns"]}
  ELSE {IF out.shape = "raise"
        THEN [session |-> session, pass |-> "warning"]
        ELSE [session |-> [session EXCEPT
                             !.data = [columns |-> out.columns, dtypes |-> out.dtypes,
                                       rows |-> out.rows],
                             !.pii_redacted = TRUE],
              pass |-> "redacted"] :
        out \in redact_dataframe(session.data, desc_cols(session.data.columns))}

\* the KPI row of the Paramount mode, lines 411-427: a DataProcessor on the
\* dataset, the row count, the distinct countries, the Sky partner percentage
kpi_row(d, cache) ==
  LET country_col == get_column(cache, "country")
      markets == IF Truthy(country_col)
                 THEN Cardinality({Cell(d.rows[i], country_col[1]) : i \in DOMAIN d.rows})
                 ELSE 0
      sky_pct == get_sky_partner_percentage(d, cache)
  IN IF sky_pct.shape = "raise"
     THEN sky_pct
     ELSE [shape |-> "kpi", total_rows |-> get_summary_stats(d).total_rows,
           markets |-> markets, sky_pct |-> sky_pct.value]

\* the KPI row of the other mode, lines 431-444: rows, columns, numeric columns
generic_kpi_row(d) ==
  [shape |-> "kpi", total_rows |-> FrameLen(d.rows), columns |-> Len(d.columns),
   num_cols |-> Cardinality({i \in DOMAIN d.columns : Dtype(d, d.columns[i]) = "int"})]

\* the tabs of the Paramount mode, in the order main() renders them
Tabs ==
  <<"Executive", "Trends", "Sky Partners", "Regional", "Root Cause", "Actions",
    "Text Analysis">>

\* whether a tab renderer raises to main(): of the computations the model
\* carries, the partner filter of the Sky Partners and Actions tabs on a
\* partner column that is not text, and the top-3 concentration of the Root
\* Cause tab on a dataset without rows; the Executive tab catches its own
TabRaises(tab, d, cache) ==
  CASE tab = "Sky Partners" -> filter_sky_partners(d, cache).shape = "raise"
    [] tab = "Actions" -> /\ Truthy(get_column(cache, "partner"))
                          /\ get_sky_partner_count(d, cache).shape = "raise"
    [] tab = "Root Cause" ->
         \E out \in render_root_cause_analysis(d, cache) : out.shape = "raise"
    [] OTHER -> FALSE

\* st.session_state after the first lines of main()
NoSession == [data |-> Null, filename |-> <<>>, pii_redacted |-> FALSE]

\* no run of main() yet
NoRun ==
  [pc |-> "idle", uploaded_file |-> <<>>, enable_pii |-> TRUE,
   analysis_mode |-> "Paramount Analysis", pass |-> "skipped", sections |-> <<>>]

----------------------------------------------------------------------------
(* The datasets the model is run on *)

US == Str(<<"U", "S">>)

UK == Str(<<"U", "K">>)

DE == Str(<<"D", "E">>)

Billing == Str(<<"B", "i", "l", "l", "i", "n", "g">>)

\* Mondays of consecutive weeks across the turn of 2025/2026, a Wednesday, and
\* a Monday three weeks on
Mon22Dec == DaysFromCivil(2025, 12, 22)

Mon29Dec == DaysFromCivil(2025, 12, 29)

Wed31Dec == DaysFromCivil(2025, 12, 31)

Mon05Jan == DaysFromCivil(2026, 1, 5)

Mon12Jan == DaysFromCivil(2026, 1, 12)

Mon02Feb == DaysFromCivil(2026, 2, 2)

\* a run of n rows with the given tracked cells
Run(n, created, country, category) ==
  [n |-> n,
   c |-> (ColCreated :> created @@ ColCountry :> country @@ ColCategory :> category)]

\* a run of a dataset that has no date column
NarrowRun(n, country, category) ==
  [n |-> n, c |-> (ColCountry :> country @@ ColCategory :> category)]

WideFrame(dtype, rows) ==
  [columns |-> WideSchema,
   dtypes |-> (ColCreated :> dtype @@ ColCountry :> "str" @@ ColCategory :> "str"),
   rows |-> rows]

NarrowFrame(rows) ==
  [columns |-> NarrowSchema,
   dtypes |-> (ColCountry :> "str" @@ ColCategory :> "str"),
   rows |-> rows]

\* the runs of the aggregation datasets: a country, a category, a row count
WideCountryRuns ==
  { Run(40, DateCell(Mon22Dec), US, Billing),
    Run(30, DateCell(Mon22Dec), UK, Billing),
    Run(30, DateCell(Mon22Dec), DE, Billing),
    Run(30, DateCell(Mon22Dec), Null, Billing),
    Run(30, DateCell(Mon22Dec), UK, Null) }

NarrowCountryRuns ==
  {NarrowRun(40, US, Billing), NarrowRun(30, UK, Billing), NarrowRun(30, Null, Billing)}

\* the datasets of the aggregation specification, by schema
AggFrames(schema) ==
  IF schema = WideSchema
  THEN {WideFrame("date", rows) : rows \in SeqsUpTo(WideCountryRuns, MaxAggRuns)}
  ELSE {NarrowFrame(rows) : rows \in SeqsUpTo(NarrowCountryRuns, 1)}

\* the row counts of the weekly datasets: they reach the week-over-week
\* ratios 23/20, 61/53, 21/20 and 9/10
Volumes == {9, 10, 20, 21, 23, 53, 61}

NativeDateRuns ==
  {Run(n, DateCell(day), US, Billing) : n \in Volumes, day \in {Mon05Jan, Mon12Jan}}
    \cup {Run(2, cell, US, Billing) :
            cell \in {DateCell(Mon22Dec), DateCell(Mon29Dec), DateCell(Wed31Dec),
                      DateCell(Mon02Feb), Null}}

\* the texts of the date column
DateTexts ==
  { DateText(2025, 12, 22, "-", "none"),
    DateText(2025, 12, 29, "-", "none"),
    DateText(2025, 12, 29, "-", " "),
    DateText(2025, 12, 29, "-", "T"),
    DateText(1, 2, 2026, "/", "none"),
    DateText(12, 25, 2025, "/", "none"),
    DateText(25, 12, 2025, "/", "none"),
    DateText(22, 12, 2025, "-", "none"),
    DateText(2026, 1, 12, "/", "none"),
    DateText(25, 12, 2025, "/", " "),
    DateText(12, 25, 2025, "/", " "),
    DateText(29, 12, 2025, ".", "none"),
    Garbage,
    Null }

TextDateRuns ==
  {Run(1, cell, US, Billing) : cell \in DateTexts}
    \cup {Run(2, DateText(1, 2, 2026, "/", "none"), US, Billing)}

OtherDateRuns(dtype) ==
  IF dtype = "datetime"
  THEN {Run(1, cell, US, Billing) :
          cell \in {DatetimeCell(Mon29Dec, 36000), DatetimeCell(Mon05Jan, 0), Null}}
  ELSE {Run(1, cell, US, Billing) :
          cell \in {IntCell(Mon22Dec), IntCell(Wed31Dec), Null}}

\* the first and the last Monday of 2024: ISO week 1 of 2024 and of 2025
Mon01Jan24 == DaysFromCivil(2024, 1, 1)

Mon30Dec24 == DaysFromCivil(2024, 12, 30)

\* a dataset that spans the year 2024
YearLongFrames ==
  {WideFrame("date", <<Run(2, DateCell(Mon01Jan24), US, Billing),
                       Run(3, DateCell(Mon30Dec24), US, Billing)>>)}

\* the datasets of the weekly specification, by schema
WeeklyFrames(schema) ==
  IF schema = WideSchema
  THEN {WideFrame("date", rows) : rows \in SeqsUpTo(NativeDateRuns, MaxRuns)}
         \cup YearLongFrames
         \cup {WideFrame("str", rows) : rows \in SeqsUpTo(TextDateRuns, MaxRuns)}
         \cup UNION {{WideFrame(dtype, rows) :
                        rows \in SeqsUpTo(OtherDateRuns(dtype), MaxRuns)} :
                     dtype \in {"datetime", "int"}}
  ELSE {NarrowFrame(rows) : rows \in SeqsUpTo(NarrowCountryRuns, 1)}

Schemas == {WideSchema, NarrowSchema}

----------------------------------------------------------------------------
(* The datasets of the partner filter *)

\* the first n columns of the wide schema
WidePrefix(n) == SubSeq(WideSchema, 1, n)

\* the partner texts: the keyword in three letter cases, inside a longer
\* word, broken by a space, and absent
PartnerTexts ==
  { <<"S", "k", "y">>, <<"S", "K", "Y", " ", "U", "K">>, <<"s", "k", "y">>,
    <<"B", "S", "k", "y", "B">>, <<"s", "k", " ", "y">>,
    <<"A", "m", "a", "z", "o", "n">> }

\* a run of n rows with the given partner cell
PartnerRun(n, partner) == [n |-> n, c |-> (ColPartner :> partner)]

PartnerRuns ==
  {PartnerRun(n, cell) : n \in {1, 3}, cell \in {Str(s) : s \in PartnerTexts} \cup {Null}}

\* a dataset of the given columns whose partner column, if any, has the dtype
PartnerFrame(columns, dtype, rows) ==
  [columns |-> columns, dtypes |-> (ColPartner :> dtype), rows |-> rows]

\* the schemas of the partner datasets: the partner position is index 18, so
\* 18 columns are one too few and 19 just enough
PartnerSchemas == {WideSchema, NarrowSchema, WidePrefix(18), WidePrefix(19)}

\* the partner datasets, by schema: text partner columns, an integer partner
\* column, and datasets too narrow to have a partner column
PartnerFrames(schema) ==
  IF HasColumn([columns |-> schema], ColPartner)
  THEN {PartnerFrame(schema, "str", rows) : rows \in SeqsUpTo(PartnerRuns, MaxRuns)}
         \cup {PartnerFrame(schema, "int", <<PartnerRun(1, IntCell(7))>>)}
  ELSE {[columns |-> schema, dtypes |-> <<>>, rows |-> rows] :
          rows \in {<<>>, <<[n |-> 3, c |-> <<>>]>>}}

----------------------------------------------------------------------------
(* The datasets of the column resolver *)

ColLocation == <<"L", "o", "c", "a", "t", "i", "o", "n">>

ColSubCategory == <<"S", "u", "b", "-", "C", "a", "t", "e", "g", "o", "r", "y">>

ColReason == <<"R", "e", "a", "s", "o", "n">>

\* the column identifiers the short schemas are made of: identifiers that
\* hold a pattern of DYNAMIC_COLUMNS, in capitals or inside a longer word,
\* and one that holds none
DynamicCols == {ColCategory, ColIssue, ColCountry, ColLocation, ColSubCategory, ColReason}

\* the columns of a dataset in the opposite order
Reverse(s) == [i \in 1..Len(s) |-> s[Len(s) + 1 - i]]

\* the schemas without a repeated identifier, as polars requires
Injective(s) == \A i \in DOMAIN s : \A j \in DOMAIN s : s[i] = s[j] => i = j

\* the schemas of the resolver: every width from no column to the 22 columns
\* of the positional mapping and one more, in two column orders, and every
\* short schema over DynamicCols
ResolverSchemas ==
  {WidePrefix(n) : n \in 0..Len(WideSchema)}
    \cup {SubSeq(Reverse(WideSchema), 1, n) : n \in 0..Len(WideSchema)}
    \cup {WideSchema \o <<Filler("2", "2")>>}
    \cup {s \in SeqsUpTo(DynamicCols, MaxCols) : Injective(s)}

\* the datasets of a schema: without rows, and with rows
ResolverFrames(schema) ==
  {[columns |-> schema, dtypes |-> <<>>, rows |-> rows] :
     rows \in {<<>>, <<[n |-> 3, c |-> <<>>]>>}}

----------------------------------------------------------------------------
(* The inputs of the text analyzer *)

\* the pieces the texts are made of
Fragments ==
  {
    \* the example of the keyword scoring: refund 2 and double bill 3
    <<"I", " ", "n", "e", "e", "d", " ", "a", " ", "r", "e", "f", "u", "n", "d", " ", "f", "o", "r", " ", "m", "y", " ", "d", "o", "u", "b", "l", "e", " ", "b", "i", "l", "l">>,
    \* a keyword, which a text may repeat
    <<"r", "e", "f", "u", "n", "d">>,
    \* a keyword inside another keyword, in capitals
    <<"H", "o", "w", " ", "t", "o", " ", "C", "A", "N", "C", "E", "L">>,
    \* Billing 1
    <<"b", "i", "l", "l", "i", "n", "g">>,
    \* Cancellation 1
    <<"c", "a", "n", "c", "e", "l">>,
    \* Billing 2
    <<"c", "h", "a", "r", "g", "e", "d">>,
    \* Login 2
    <<"p", "a", "s", "s", "w", "o", "r", "d">>,
    \* Partner 2, by the keyword sky inside a word
    <<"s", "k", "y", "p", "e">>,
    \* an e-mail address made of keywords
    <<"r", "e", "f", "u", "n", "d", "@", "s", "k", "y", ".", "c", "o", "m">>,
    \* boilerplate
    <<"<", "E", "x", "t", "e", "r", "n", "a", "l", " ", " ", "E", "m", "a", "i", "l", ">">>,
    \* boilerplate
    <<"S", "e", "n", "t", " ", "f", "r", "o", "m", " ", "m", "y", " ", "i", "P", "h", "o", "n", "e">>,
    \* no keyword
    <<"h", "e", "l", "l", "o">>,
    \* whitespace
    <<" ", "\t", "\n">>,
    \* a keyword broken by a line end
    <<"f", "r", "e", "e", "\n", "t", "r", "i", "a", "l">> }

\* the pieces of a text, joined by single spaces
RECURSIVE JoinFragments(_)
JoinFragments(fs) ==
  IF fs = <<>> THEN <<>>
  ELSE IF Len(fs) = 1 THEN fs[1]
  ELSE fs[1] \o <<" ">> \o JoinFragments(Tail(fs))

\* the arguments of categorize_text: None, a number, and the texts of up to
\* MaxFragments pieces, the empty string among them
TextInputs ==
  {Null, IntCell(7)}
    \cup {Str(JoinFragments(fs)) : fs \in SeqsUpTo(Fragments, MaxFragments)}

\* no argument: the state of the specifications that do not analyze text
NoText == [k |-> "none"]

\* a dataset without columns or rows
NoDataset == [columns |-> <<>>, dtypes |-> <<>>, rows |-> <<>>]

----------------------------------------------------------------------------
(* The datasets of the regional theme distribution *)

\* the columns of a dataset that analyze_dataframe has tagged
ThemedSchema == NarrowSchema \o <<ColTheme, ColThemeScore>>

\* a run of a tagged dataset
ThemedRun(n, country, theme) ==
  [n |-> n, c |-> (ColCountry :> country @@ ColCategory :> Billing
                     @@ ColTheme :> ThemeCell(theme))]

ThemedFrame(rows) ==
  [columns |-> ThemedSchema,
   dtypes |-> (ColCountry :> "str" @@ ColCategory :> "str" @@ ColTheme :> "str"),
   rows |-> rows]

\* the themes of the tagged rows: the first four of the keyword table
RegionalThemes == [k \in 1..4 |-> KEYWORDS[k].theme]

\* the rows of one country: counts[k] rows of the k-th theme; the counts
\* 4, 3, 2, 1 make the shares 0.4, 0.3, 0.2 and 0.1
CountryRuns(country, counts) ==
  LET all == [k \in DOMAIN counts |-> ThemedRun(counts[k], country, RegionalThemes[k])]
  IN SelectSeq(all, LAMBDA r : r.n > 0)

\* the tagged datasets: the rows of one country, then at most one row of a
\* second country and one row without a country
ThemedFrames ==
  {ThemedFrame(CountryRuns(US, counts) \o CountryRuns(DE, <<0, de>>)
                 \o CountryRuns(Null, <<none>>)) :
     counts \in [DOMAIN RegionalThemes -> 0..MaxThemeRows], de \in 0..1, none \in 0..1}

\* the datasets of the regional specification: tagged or not
RegionalFrames ==
  ThemedFrames \cup {NarrowFrame(<<NarrowRun(40, US, Billing)>>)}

----------------------------------------------------------------------------
(* The datasets every operation is run on *)

\* a run of n rows of the wide schema with a description, its translation
\* and a partner
OpsRun(n, country, category, description, translated, partner) ==
  [n |-> n,
   c |-> (ColCreated :> DateCell(Mon22Dec) @@ ColCountry :> country
            @@ ColCategory :> category @@ ColDescription :> description
            @@ ColTranslated :> translated @@ ColPartner :> partner)]

\* descriptions: a keyword, none, the empty text, an address made of keywords
OpsRuns ==
  { OpsRun(40, US, Billing, Str(<<"r", "e", "f", "u", "n", "d">>),
           Str(<<"c", "a", "n", "c", "e", "l">>), Str(<<"S", "k", "y">>)),
    OpsRun(30, UK, Billing, Null, Str(<<"c", "a", "n", "c", "e", "l">>), Null),
    OpsRun(30, DE, Null, Str(<<>>), Str(<<"p", "a", "s", "s", "w", "o", "r", "d">>),
           Str(<<"A", "m", "a", "z", "o", "n">>)),
    OpsRun(30, Null, Billing,
           Str(<<"r", "e", "f", "u", "n", "d", "@", "s", "k", "y", ".", "c", "o", "m">>),
           Null, Str(<<"s", "k", "y">>)) }

OpsDtypes ==
  (ColCreated :> "date" @@ ColCountry :> "str" @@ ColCategory :> "str"
     @@ ColDescription :> "str" @@ ColTranslated :> "str" @@ ColPartner :> "str")

\* the datasets of the specification of all operations, the ones without
\* rows among them
OpsFrames ==
  {[columns |-> WideSchema, dtypes |-> OpsDtypes, rows |-> rows] :
     rows \in SeqsUpTo(OpsRuns, MaxRuns)}
    \cup {NarrowFrame(rows) : rows \in SeqsUpTo(NarrowCountryRuns, 1)}

----------------------------------------------------------------------------
(* The files of the uploader *)

\* a description with an e-mail address, and one without
MailText ==
  <<"m", "a", "i", "l", " ", "B", "o", "b", "@", "S", "k", "y", ".", "c", "o", "m">>

PlainText == <<"r", "e", "f", "u", "n", "d">>

\* a run of n rows of an uploaded table
AppRun(n, description, translated, partner) ==
  [n |-> n,
   c |-> (ColCreated :> DateCell(Mon22Dec) @@ ColCountry :> US @@ ColCategory :> Billing
            @@ ColDescription :> description @@ ColTranslated :> translated
            @@ ColPartner :> partner)]

\* an uploaded table of the given columns and of the dtypes of its
\* description and partner columns
AppFrame(columns, description, partner, rows) ==
  [columns |-> columns,
   dtypes |-> (ColCreated :> "date" @@ ColCountry :> "str" @@ ColCategory :> "str"
                 @@ ColDescription :> description @@ ColTranslated :> "str"
                 @@ ColPartner :> partner),
   rows |-> rows]

\* the tables of the files: text columns with and without rows, a numeric
\* description column, a numeric partner column, 13 columns (the description
\* is the last one), and a table too narrow for a description
AppFrames ==
  { AppFrame(WideSchema, "str", "str",
             <<AppRun(2, Str(MailText), Str(PlainText), Str(Sky)),
               AppRun(1, Null, Str(MailText), Null)>>),
    AppFrame(WideSchema, "str", "str", <<>>),
    AppFrame(WideSchema, "int", "str", <<AppRun(2, IntCell(7), Str(MailText), Str(Sky))>>),
    AppFrame(WideSchema, "str", "int", <<AppRun(2, Str(MailText), Str(PlainText), IntCell(7))>>),
    AppFrame(WidePrefix(13), "str", "str", <<AppRun(2, Str(MailText), Null, Null)>>),
    NarrowFrame(<<NarrowRun(40, US, Billing)>>) }

\* the names of the files
FileNames == { <<"a", ".", "c", "s", "v">>, <<"B", ".", "C", "S", "V">> }

\* the files a user can put in the uploader: a name and what the reader
\* makes of the content, Null when it raises
Files ==
  {[name |-> name, content |-> content] :
     name \in FileNames, content \in AppFrames \cup {Null}}

\* the analysis modes of the sidebar
AnalysisModes == {"Paramount Analysis", "Analysis for All"}

----------------------------------------------------------------------------
(* The state machine: a DataProcessor built on a dataset, and its calls.
   call is the last call and its arguments, result what it returned, local
   the locals of the last call (kept for get_weekly_aggregation and for
   categorize_text), input_text the argument of the text analyzer. *)

\* _detect_columns on the schemas of the row datasets, tabulated once
ColumnCaches ==
  [schema \in Schemas \cup PartnerSchemas |-> detect_columns(schema)]

\* a resolver that binds nothing on a dataset without rows
column_map_of_rows(d) ==
  IF d.rows = <<>> THEN detect_columns(<<>>) ELSE detect_columns(d.columns)

\* the _column_cache that __init__ leaves for the dataset d: _detect_columns
\* reads self.df.columns only
column_map(d) ==
  IF d.columns \in DOMAIN ColumnCaches
  THEN ColumnCaches[d.columns]
  ELSE detect_columns(d.columns)

\* DataProcessor.__init__ on the dataset d
Construct(d) ==
  /\ df = d
  /\ column_cache = column_map(d)
  /\ input_text = NoText
  /\ session_state = NoSession
  /\ script_run = NoRun
  /\ call = [op |-> "init"]
  /\ local = NoLocal
  /\ result = EmptyFrame

Init == \E schema \in Schemas : \E d \in AggFrames(schema) : Construct(d)

InitWeekly == \E schema \in Schemas : \E d \in WeeklyFrames(schema) : Construct(d)

\* the column arguments of the calls
ColumnArgs == {ColCountry, ColMissing}

GetTopN ==
  \E column \in ColumnArgs, n \in 0..MaxN :
    \E out \in get_top_n(df, column, n) :
      /\ call' = [op |-> "get_top_n", column |-> column, n |-> n]
      /\ result' = out
      /\ local' = NoLocal
      /\ UNCHANGED <<df, column_cache, input_text, session_state, script_run>>

GetDistribution ==
  \E column \in ColumnArgs :
    \E out \in get_distribution(df, column) :
      /\ call' = [op |-> "get_distribution", column |-> column]
      /\ result' = out
      /\ local' = NoLocal
      /\ UNCHANGED <<df, column_cache, input_text, session_state, script_run>>

\* the arguments of get_grouped_analysis: the grouping columns and the
\* optional filter column and pattern
GroupedArgs ==
  { [group_cols |-> <<ColCountry>>, col |-> <<>>, pattern |-> <<>>],
    [group_cols |-> <<ColCountry, ColCategory>>, col |-> <<>>, pattern |-> <<>>],
    [group_cols |-> <<ColMissing>>, col |-> <<>>, pattern |-> <<>>],
    [group_cols |-> <<ColCountry>>, col |-> <<ColCountry>>, pattern |-> << <<"U">> >>],
    [group_cols |-> <<ColCountry>>, col |-> <<ColCountry>>, pattern |-> << <<"U", ".">> >>],
    [group_cols |-> <<ColCountry>>, col |-> <<ColCountry>>, pattern |-> << <<"D">> >>],
    [group_cols |-> <<ColMissing>>, col |-> <<ColCountry>>, pattern |-> << <<"U">> >>],
    [group_cols |-> <<ColCountry>>, col |-> <<ColCountry>>, pattern |-> << <<>> >>],
    [group_cols |-> <<ColCountry>>, col |-> <<ColCreated>>, pattern |-> << <<"U">> >>] }

GetGroupedAnalysis ==
  \E a \in GroupedArgs :
    \E out \in get_grouped_analysis(df, a.group_cols, a.col, a.pattern) :
      /\ call' = [op |-> "get_grouped_analysis", group_cols |-> a.group_cols,
                  filter_col |-> a.col, filter_pattern |-> a.pattern]
      /\ result' = out
      /\ local' = NoLocal
      /\ UNCHANGED <<df, column_cache, input_text, session_state, script_run>>

\* the categorical columns offered by the two select boxes
Crosstab ==
  \E row_var \in {ColCountry, ColCategory} :
    \E col_var \in {ColCountry, ColCategory} \ {row_var} :
      \E out \in render_crosstab_analysis(df, row_var, col_var) :
        /\ call' = [op |-> "crosstab", row_var |-> row_var, col_var |-> col_var]
        /\ result' = out
        /\ local' = NoLocal
        /\ UNCHANGED <<df, column_cache, input_text, session_state, script_run>>

GetWeeklyAggregation ==
  \E out \in get_weekly_aggregation(df, column_cache) :
    /\ call' = [op |-> "get_weekly_aggregation"]
    /\ result' = out.ret
    /\ local' = out.local
    /\ UNCHANGED <<df, column_cache, input_text, session_state, script_run>>

Next ==
  \/ GetTopN
  \/ GetDistribution
  \/ GetGroupedAnalysis
  \/ Crosstab
  \/ GetWeeklyAggregation

Spec == Init /\ [][Next]_vars

\* the weekly trend engine alone, on the datasets that vary the date column
NextWeekly == GetWeeklyAggregation

SpecWeekly == InitWeekly /\ [][NextWeekly]_vars


\* the partner filter alone, on the datasets that vary the partner column
InitSky == \E schema \in PartnerSchemas : \E d \in PartnerFrames(schema) : Construct(d)

FilterSkyPartners ==
  /\ call' = [op |-> "filter_sky_partners"]
  /\ result' = filter_sky_partners(df, column_cache)
  /\ local' = NoLocal
  /\ UNCHANGED <<df, column_cache, input_text, session_state, script_run>>

GetSkyPartnerCount ==
  /\ call' = [op |-> "get_sky_partner_count"]
  /\ result' = get_sky_partner_count(df, column_cache)
  /\ local' = NoLocal
  /\ UNCHANGED <<df, column_cache, input_text, session_state, script_run>>

NextSky == FilterSkyPartners \/ GetSkyPartnerCount

SpecSky == InitSky /\ [][NextSky]_vars

\* the column resolver alone, on datasets of every width
InitResolver == \E schema \in ResolverSchemas : \E d \in ResolverFrames(schema) : Construct(d)

\* the logical names of the configuration, and one it does not have
LogicalNames ==
  {COLUMN_MAPPING[k].name : k \in DOMAIN COLUMN_MAPPING}
    \cup {DYNAMIC_COLUMNS[k].name : k \in DOMAIN DYNAMIC_COLUMNS}
    \cup {"theme"}

GetColumn ==
  \E name \in LogicalNames :
    /\ call' = [op |-> "get_column", name |-> name]
    /\ result' = [shape |-> "column", value |-> get_column(column_cache, name)]
    /\ local' = NoLocal
    /\ UNCHANGED <<df, column_cache, input_text, session_state, script_run>>

\* a second DataProcessor built on a dataset of the same columns, whatever
\* its rows; call keeps the map and the rows of the first one
Rebuild ==
  \E d \in ResolverFrames(df.columns) :
    /\ call' = [op |-> "rebuild", previous |-> column_cache, previous_rows |-> df.rows]
    /\ df' = d
    /\ column_cache' = column_map(d)
    /\ UNCHANGED <<input_text, session_state, script_run>>
    /\ local' = NoLocal
    /\ result' = EmptyFrame

NextResolver == GetColumn \/ Rebuild

SpecResolver == InitResolver /\ [][NextResolver]_vars

\* the text analyzer alone: TextAnalyzer() with the keyword table of the
\* configuration, and the text handed to categorize_text
InitText ==
  /\ input_text \in TextInputs
  /\ df = NoDataset
  /\ column_cache = column_map(NoDataset)
  /\ session_state = NoSession
  /\ script_run = NoRun
  /\ call = [op |-> "init"]
  /\ local = NoLocal
  /\ result = EmptyFrame

CategorizeText ==
  /\ call' = [op |-> "categorize_text"]
  /\ result' = categorize_text(input_text).ret
  /\ local' = categorize_text(input_text).local
  /\ UNCHANGED <<df, column_cache, input_text, session_state, script_run>>

NextText == CategorizeText

SpecText == InitText /\ [][NextText]_vars

\* the regional theme distribution alone, on the tagged datasets
InitRegional == \E d \in RegionalFrames : Construct(d)

GetRegionalThemes ==
  \E country_col \in ColumnArgs, top_n \in 0..MaxN :
    \E out \in get_regional_themes(df, country_col, top_n) :
      /\ call' = [op |-> "get_regional_themes", country_col |-> country_col,
                  top_n |-> top_n]
      /\ result' = out
      /\ local' = NoLocal
      /\ UNCHANGED <<df, column_cache, input_text, session_state, script_run>>

NextRegional == GetRegionalThemes

SpecRegional == InitRegional /\ [][NextRegional]_vars

\* the theme narratives of a region whose rows hold the analyzed text in
\* their description
RegionOf(cell) == <<cell, cell>>

AnalyzeRegionThemes ==
  /\ call' = [op |-> "analyze_region_themes"]
  /\ result' = [shape |-> "narratives",
                rows |-> analyze_region_themes(RegionOf(input_text)).ret]
  /\ local' = analyze_region_themes(RegionOf(input_text)).local
  /\ UNCHANGED <<df, column_cache, input_text, session_state, script_run>>

NextNarrative == AnalyzeRegionThemes \/ CategorizeText

SpecNarrative == InitText /\ [][NextNarrative]_vars

\* every operation of a DataProcessor and of the text analyzer on one dataset
InitOps == \E d \in OpsFrames : Construct(d)

GetSummaryStats ==
  /\ call' = [op |-> "get_summary_stats"]
  /\ result' = get_summary_stats(df)
  /\ local' = NoLocal
  /\ UNCHANGED <<df, column_cache, input_text, session_state, script_run>>

GetSkyPartnerPercentage ==
  /\ call' = [op |-> "get_sky_partner_percentage"]
  /\ result' = get_sky_partner_percentage(df, column_cache)
  /\ local' = NoLocal
  /\ UNCHANGED <<df, column_cache, input_text, session_state, script_run>>

\* analyze_themes(self.df, text_col, fallback_col): the dataset afterwards is
\* the table the call leaves behind
AnalyzeDataframe ==
  \E fallback_col \in {<<>>, <<ColTranslated>>} :
    LET out == analyze_dataframe(df, ColDescription, fallback_col)
    IN /\ call' = [op |-> "analyze_dataframe", fallback_col |-> fallback_col]
       /\ result' = out.ret
       /\ df' = out.self
       /\ local' = NoLocal
       /\ UNCHANGED <<column_cache, input_text, session_state, script_run>>

RenderRootCauseAnalysis ==
  \E out \in render_root_cause_analysis(df, column_cache) :
    /\ call' = [op |-> "render_root_cause_analysis"]
    /\ result' = out
    /\ local' = NoLocal
    /\ UNCHANGED <<df, column_cache, input_text, session_state, script_run>>

NextOps ==
  \/ GetColumn
  \/ GetSummaryStats
  \/ GetTopN
  \/ GetDistribution
  \/ FilterSkyPartners
  \/ GetSkyPartnerPercentage
  \/ GetWeeklyAggregation
  \/ GetGroupedAnalysis
  \/ AnalyzeDataframe
  \/ RenderRootCauseAnalysis

SpecOps == InitOps /\ [][NextOps]_vars

----------------------------------------------------------------------------
(* The application: st.session_state across the runs of main().  A widget
   event starts a run; the run goes through the upload section, the privacy
   section and, with a dataset, the KPI row and the sections of the mode.
   Every section builds its own DataProcessor on the dataset of the session;
   df and column_cache are the ones of the section being rendered. *)

InitApp ==
  /\ session_state = NoSession
  /\ script_run = NoRun
  /\ df = NoDataset
  /\ column_cache = column_map(NoDataset)
  /\ input_text = NoText
  /\ call = [op |-> "init"]
  /\ local = NoLocal
  /\ result = EmptyFrame

\* a widget event: Streamlit runs main() again with the values of the widgets
Rerun ==
  /\ script_run.pc = "idle"
  /\ \E uploaded_file \in {<<>>} \cup {<<f>> : f \in Files},
        enable_pii \in BOOLEAN, analysis_mode \in AnalysisModes :
       script_run' = [pc |-> "upload", uploaded_file |-> uploaded_file,
               enable_pii |-> enable_pii, analysis_mode |-> analysis_mode,
               pass |-> "skipped", sections |-> <<>>]
  /\ call' = [op |-> "main"]
  /\ df' = NoDataset
  /\ column_cache' = column_map(NoDataset)
  /\ result' = EmptyFrame
  /\ UNCHANGED <<session_state, input_text, local>>

\* lines 286-294: the upload section; call keeps the session state it found
UploadSection ==
  /\ script_run.pc = "upload"
  /\ session_state' = upload_step(session_state, script_run.uploaded_file)
  /\ script_run' = [script_run EXCEPT !.pc = "privacy"]
  /\ call' = [op |-> "upload", before |-> session_state]
  /\ UNCHANGED <<df, column_cache, input_text, local, result>>

\* lines 301-326 and 360-401: the privacy section, then the end of the run
\* when there is no dataset; call keeps the session state it found
PrivacySection ==
  /\ script_run.pc = "privacy"
  /\ \E out \in privacy_step(session_state, script_run.enable_pii) :
       /\ session_state' = out.session
       /\ script_run' = [script_run EXCEPT !.pass = out.pass,
                             !.pc = IF out.session.data = Null THEN "idle" ELSE "kpi"]
  /\ call' = [op |-> "privacy", before |-> session_state]
  /\ UNCHANGED <<df, column_cache, input_text, local, result>>

\* lines 403-445: the KPI row on df = st.session_state.data; an exception of
\* the Paramount row is not caught and ends the run
KpiRow ==
  /\ script_run.pc = "kpi"
  /\ df' = session_state.data
  /\ column_cache' = column_map(session_state.data)
  /\ call' = [op |-> "render", section |-> "KPI"]
  /\ result' = IF script_run.analysis_mode = "Paramount Analysis"
               THEN kpi_row(session_state.data, column_map(session_state.data))
               ELSE generic_kpi_row(session_state.data)
  /\ script_run' = [script_run EXCEPT
               !.sections = Append(@, [section |-> "KPI",
                                       raised |-> result'.shape = "raise"]),
               !.pc = IF result'.shape = "raise" THEN "idle"
                      ELSE IF script_run.analysis_mode = "Paramount Analysis" THEN "tabs"
                      ELSE "generic"]
  /\ UNCHANGED <<session_state, input_text, local>>

\* lines 462-502: the next tab, in its own try/except
RenderTab ==
  /\ script_run.pc = "tabs"
  /\ LET tab == Tabs[Len(script_run.sections)]
         raised == TabRaises(tab, session_state.data, column_map(session_state.data))
     IN /\ df' = session_state.data
        /\ column_cache' = column_map(session_state.data)
        /\ call' = [op |-> "render", section |-> tab]
        /\ result' = IF raised THEN [shape |-> "raise", rows |-> <<>>] ELSE EmptyFrame
        /\ script_run' = [script_run EXCEPT
                     !.sections = Append(@, [section |-> tab, raised |-> raised]),
                     !.pc = IF Len(script_run.sections) = Len(Tabs) THEN "idle" ELSE "tabs"]
  /\ UNCHANGED <<session_state, input_text, local>>

\* lines 506-509: render_generic_analysis in its try/except
RenderGenericAnalysis ==
  /\ script_run.pc = "generic"
  /\ df' = session_state.data
  /\ column_cache' = column_map(session_state.data)
  /\ call' = [op |-> "render", section |-> "Generic"]
  /\ result' = EmptyFrame
  /\ script_run' = [script_run EXCEPT
               !.sections = Append(@, [section |-> "Generic", raised |-> FALSE]),
               !.pc = "idle"]
  /\ UNCHANGED <<session_state, input_text, local>>

NextApp ==
  \/ Rerun
  \/ UploadSection
  \/ PrivacySection
  \/ KpiRow
  \/ RenderTab
  \/ RenderGenericAnalysis

SpecApp == InitApp /\ [][NextApp]_vars
----------------------------------------------------------------------------
(* Properties of the weekly trend engine, checked under SpecWeekly *)

WeeklyCall == call.op = "get_weekly_aggregation"

\* the number of source rows whose parsed date falls in the week starting w
RowsInWeek(w) ==
  SumOver([i \in DOMAIN df.rows |-> df.rows[i].n],
          {i \in DOMAIN local.parse.col :
             /\ local.parse.col[i] # Null
             /\ dt_truncate_1w(local.parse.col[i].d) = w})

\* the week starts observed in the parsed date column
ObservedWeekStarts ==
  {dt_truncate_1w(local.parse.col[i].d) :
     i \in {k \in DOMAIN local.parse.col : local.parse.col[k] # Null}}

\* a week whose Monday is 29, 30 or 31 December: dt.year() and dt.week()
\* disagree on its year
StraddlingWeek(w) ==
  CivilFromDays(w).m = 12 /\ CivilFromDays(w).d >= 29

\* C1: the records get_weekly_aggregation returns are in strictly ascending
\* chronological order of their week start, for every dataset.
C1_ChronologicalOrder ==
  WeeklyCall =>
    \A j \in 1..(Len(local.weekly) - 1) :
      local.weekly[j].week_start < local.weekly[j + 1].week_start

\* C1 holds of every series that holds no week starting on 29-31 December.
C1_OrderWithinYear ==
  (WeeklyCall /\ \A j \in DOMAIN local.weekly : ~StraddlingWeek(local.weekly[j].week_start)) =>
    \A j \in 1..(Len(local.weekly) - 1) :
      local.weekly[j].week_start < local.weekly[j + 1].week_start

\* C2: with at least one parseable date, the series holds one record for every
\* week from the earliest to the latest observed week, in that order, and the
\* volume of each is the number of source rows of the week (0 for a week
\* without rows): rows in weeks 1 and 4 only give [v1, 0, 0, v4].
C2_GapFilledVolumes ==
  (WeeklyCall /\ local.parse.ok /\ ObservedWeekStarts # {}) =>
    LET lo == SetMin(ObservedWeekStarts)
        hi == SetMax(ObservedWeekStarts)
        n == (hi - lo) \div 7 + 1
    IN /\ result.shape = "weekly"
       /\ Len(result.rows) = n
       /\ \A j \in 1..n : result.rows[j].volume = RowsInWeek(lo + 7 * (j - 1))

\* C2 without the order: one record per week of the range, each with the
\* number of source rows of its week.
C2_OneRecordPerWeek ==
  (WeeklyCall /\ local.parse.ok /\ ObservedWeekStarts # {}) =>
    LET lo == SetMin(ObservedWeekStarts)
        hi == SetMax(ObservedWeekStarts)
        n == (hi - lo) \div 7 + 1
    IN /\ Len(local.weekly) = n
       /\ \A k \in 0..(n - 1) :
            Cardinality({j \in DOMAIN local.weekly :
                           local.weekly[j].week_start = lo + 7 * k}) = 1
       /\ \A j \in DOMAIN local.weekly :
            /\ local.weekly[j].volume = RowsInWeek(local.weekly[j].week_start)
            /\ result.rows[j].volume = local.weekly[j].volume

\* C3: for every record after the first, wow_change is the volume minus the
\* volume of the calendar week just before, and wow_pct is that change over
\* the previous volume times 100, to the nearest tenth, when the previous
\* volume is positive; wow_pct is null for the first record and whenever the
\* previous volume is 0.
C3_WeekOverWeek ==
  WeeklyCall =>
    \A j \in DOMAIN local.weekly :
      LET r == result.rows[j]
          prev == RowsInWeek(local.weekly[j].week_start - 7)
      IN /\ j = 1 => r.wow_pct = NullNum
         /\ j > 1 =>
              /\ r.wow_change = Num(r.volume - prev)
              /\ prev = 0 => r.wow_pct = NullNum
              /\ prev > 0 =>
                   /\ r.wow_pct # NullNum
                   /\ 2 * Abs(1000 * (r.volume - prev) - r.wow_pct[1] * prev) <= prev

\* C3 holds of every series that holds no week starting on 29-31 December.
C3_WeekOverWeekWithinYear ==
  (WeeklyCall /\ \A j \in DOMAIN local.weekly : ~StraddlingWeek(local.weekly[j].week_start)) =>
    \A j \in DOMAIN local.weekly :
      LET r == result.rows[j]
          prev == RowsInWeek(local.weekly[j].week_start - 7)
      IN /\ j = 1 => r.wow_pct = NullNum
         /\ j > 1 =>
              /\ r.wow_change = Num(r.volume - prev)
              /\ prev = 0 => r.wow_pct = NullNum
              /\ prev > 0 =>
                   /\ r.wow_pct # NullNum
                   /\ 2 * Abs(1000 * (r.volume - prev) - r.wow_pct[1] * prev) <= prev

\* C4: the trend label of every weekly record is decided by its wow_pct
\* alone, in this order: null gives N/A; above 15 gives SPIKE; above 5 gives
\* UP; below -10 gives DOWN; anything else gives FLAT (wow_pct in tenths).
C4_TrendLabel ==
  (WeeklyCall /\ result.shape = "weekly") =>
    \A j \in DOMAIN result.rows :
      LET r == result.rows[j]
      IN /\ r.wow_pct = NullNum => r.trend = "N/A"
         /\ r.wow_pct # NullNum =>
              /\ r.wow_pct[1] > 150 => r.trend = "SPIKE"
              /\ (r.wow_pct[1] <= 150 /\ r.wow_pct[1] > 50) => r.trend = "UP"
              /\ (r.wow_pct[1] <= 50 /\ r.wow_pct[1] < -100) => r.trend = "DOWN"
              /\ (r.wow_pct[1] <= 50 /\ r.wow_pct[1] >= -100) => r.trend = "FLAT"

\* a series with a record at wow_pct = 15.0, labelled UP
C4_Witness ==
  /\ WeeklyCall
  /\ result.shape = "weekly"
  /\ \E j \in DOMAIN result.rows :
       result.rows[j].wow_pct = Num(150) /\ result.rows[j].trend = "UP"

\* the other boundaries of C4: 15.1 is SPIKE, 5.0 and -10.0 are FLAT
C4_Boundaries ==
  (WeeklyCall /\ result.shape = "weekly") =>
    \A j \in DOMAIN result.rows :
      LET r == result.rows[j]
      IN /\ r.wow_pct = Num(151) => r.trend = "SPIKE"
         /\ r.wow_pct = Num(50) => r.trend = "FLAT"
         /\ r.wow_pct = Num(-100) => r.trend = "FLAT"

C4_ReachesSpikeBoundary ==
  WeeklyCall /\ \E j \in DOMAIN result.rows : result.rows[j].wow_pct = Num(151)

C4_ReachesFlatBoundaries ==
  WeeklyCall /\ \E j \in DOMAIN result.rows : result.rows[j].wow_pct \in {Num(50), Num(-100)}

\* the cells of the resolved date column, run by run
DateCells == [i \in DOMAIN df.rows |-> Cell(df.rows[i], local.date_col[1])]

\* whether the j-th format parses at least one row of the date column
SomeRowParses(j) ==
  \E i \in DOMAIN DateCells : strptime(FORMATS[j], DateCells[i]) # Null

\* the total volume of the returned series
TotalVolume ==
  SumOver([j \in DOMAIN result.rows |-> result.rows[j].volume], DOMAIN result.rows)

\* C5: on a text date column _parse_dates applies one format to the whole
\* column, the first of the list under which at least one row parses; the
\* rows that do not parse under it get a null date and are left out of the
\* weekly aggregation, even when a later format would parse them.
C5_SingleFormat ==
  (/\ WeeklyCall
   /\ local.date_col # <<>>
   /\ Dtype(df, local.date_col[1]) = "str"
   /\ \E j \in DOMAIN FORMATS : SomeRowParses(j)) =>
    /\ local.parse.via = "format"
    /\ local.parse.fmt \in DOMAIN FORMATS
    /\ SomeRowParses(local.parse.fmt)
    /\ \A j \in 1..(local.parse.fmt - 1) : ~SomeRowParses(j)
    /\ \A i \in DOMAIN DateCells :
         local.parse.col[i] = strptime(FORMATS[local.parse.fmt], DateCells[i])
    /\ result.shape = "weekly"
    /\ TotalVolume =
         SumOver([i \in DOMAIN df.rows |-> df.rows[i].n],
                 {i \in DOMAIN df.rows :
                    strptime(FORMATS[local.parse.fmt], DateCells[i]) # Null})

\* a column parsed as DD/MM/YYYY in which a row is left null that the later
\* format MM/DD/YYYY parses
C5_Witness ==
  /\ WeeklyCall
  /\ local.parse.via = "format"
  /\ local.parse.fmt = 3
  /\ \E i \in DOMAIN local.parse.col :
       /\ local.parse.col[i] = Null
       /\ strptime(FORMATS[4], DateCells[i]) # Null

\* C6: get_weekly_aggregation returns an empty series, and no error, when the
\* date column is unresolved, when every format and both fallback casts
\* fail, and when every parsed date is null.
C6_EmptySeries ==
  (/\ WeeklyCall
   /\ \/ get_column(column_cache, "date") = <<>>
      \/ /\ Dtype(df, local.date_col[1]) = "str"
         /\ \A j \in DOMAIN FORMATS : ~SomeRowParses(j)
         /\ \E i \in DOMAIN DateCells :
              DateCells[i] # Null /\ ~Matches(FORMATS[1], DateCells[i].t)
         /\ \E i \in DOMAIN DateCells :
              DateCells[i] # Null /\ ~IsoTimestamp(DateCells[i].t)
      \/ \A i \in DOMAIN local.parse.col : local.parse.col[i] = Null) =>
    result = EmptyFrame

\* a text date column on which every strategy fails
C6_Witness ==
  /\ WeeklyCall
  /\ local.date_col # <<>>
  /\ df.rows # <<>>
  /\ ~local.parse.ok
  /\ result = EmptyFrame

\* the other cases of C6: an unresolved date column; a column parsed to nulls only
C6_ReachesUnresolved ==
  WeeklyCall /\ get_column(column_cache, "date") = <<>> /\ result = EmptyFrame

C6_ReachesAllNull ==
  /\ WeeklyCall
  /\ local.parse.ok
  /\ df.rows # <<>>
  /\ \A i \in DOMAIN local.parse.col : local.parse.col[i] = Null
  /\ result = EmptyFrame

\* the strategies of _parse_dates that the datasets exercise
ReachesCastDatetime == WeeklyCall /\ local.parse.via = "cast_datetime" /\ result.shape = "weekly"

ReachesCastDate == WeeklyCall /\ local.parse.via = "cast_date" /\ result.shape = "weekly"

----------------------------------------------------------------------------
(* Properties of the aggregation engine, checked under Spec *)

AggregatedShapes == {"top_n", "distribution", "grouped", "crosstab"}

\* the number of rows whose cell in the column is v
RowsWithValue(column, v) ==
  SumOver([i \in DOMAIN df.rows |-> df.rows[i].n],
          {i \in DOMAIN df.rows : Cell(df.rows[i], column) = v})

\* the distinct non-null values of a column
DistinctValues(column) ==
  {Cell(df.rows[i], column) : i \in DOMAIN df.rows} \ {Null}

\* the number of rows whose cell in the column is not null
NonNullRows(column) ==
  SumOver([i \in DOMAIN df.rows |-> df.rows[i].n],
          {i \in DOMAIN df.rows : Cell(df.rows[i], column) # Null})

\* the count of a row of an aggregated table
CountOf(r) == IF "count" \in DOMAIN r THEN r.count ELSE r.volume

\* the grouping columns of the last call
GroupColsOfCall ==
  IF call.op \in {"get_top_n", "get_distribution"} THEN <<call.column>>
  ELSE IF call.op = "crosstab" THEN <<call.row_var, call.col_var>>
  ELSE SelectSeq(call.group_cols, LAMBDA c : HasColumn(df, c))

\* the first run of the dataset that holds a group key
FirstOccurrence(key) ==
  SetMin({i \in DOMAIN df.rows : KeyOf(df.rows[i], GroupColsOfCall) = key})

\* C7: each row of get_distribution(column) has percentage = count over the
\* number of rows with a non-null value in the column, times 100, to two
\* decimals, so the percentages of a non-empty distribution sum to 100 within
\* the rounding, with or without nulls in the column (hundredths of a percent).
C7_PercentOfNonNull ==
  (call.op = "get_distribution" /\ result.shape = "distribution") =>
    /\ \A j \in DOMAIN result.rows :
         2 * Abs(result.rows[j].count * 10000
                 - result.rows[j].percentage * NonNullRows(call.column))
           <= NonNullRows(call.column)
    /\ result.rows # <<>> =>
         Abs(SumOver([j \in DOMAIN result.rows |-> result.rows[j].percentage],
                     DOMAIN result.rows) - 10000) <= Len(result.rows)

\* what get_distribution computes: the share of all the rows of the dataset
C7_PercentOfAllRows ==
  (call.op = "get_distribution" /\ result.shape = "distribution") =>
    \A j \in DOMAIN result.rows :
      2 * Abs(result.rows[j].count * 10000
              - result.rows[j].percentage * FrameLen(df.rows))
        <= FrameLen(df.rows)

\* C8: no grouped aggregation returns a bucket whose group key is null:
\* get_top_n, get_distribution, get_grouped_analysis and the cross-tabulation.
C8_NoNullKeys ==
  result.shape \in AggregatedShapes =>
    \A j \in DOMAIN result.rows :
      \A c \in DOMAIN result.rows[j].key : result.rows[j].key[c] # Null

\* C8 holds of get_top_n and get_distribution, which filter the nulls out.
C8_NoNullKeysFiltered ==
  result.shape \in {"top_n", "distribution"} =>
    \A j \in DOMAIN result.rows :
      \A c \in DOMAIN result.rows[j].key : result.rows[j].key[c] # Null

\* C9: get_top_n(column, n) returns min(n, number of distinct non-null
\* values) rows, each with a value of the column and the exact number of rows
\* that hold it, no value twice, the counts non-increasing, and no value left
\* out with a count above a returned one; it returns the empty table when the
\* column is absent, and no rows when the dataset has none.
C9_TopN ==
  call.op = "get_top_n" =>
    IF ~HasColumn(df, call.column)
    THEN result = EmptyFrame
    ELSE LET rows == result.rows
             vals == DistinctValues(call.column)
             returned == {rows[j].key[1] : j \in DOMAIN rows}
         IN /\ result.shape = "top_n"
            /\ Len(rows) = (IF call.n < Cardinality(vals) THEN call.n
                            ELSE Cardinality(vals))
            /\ Cardinality(returned) = Len(rows)
            /\ \A j \in DOMAIN rows :
                 /\ rows[j].key[1] \in vals
                 /\ rows[j].count = RowsWithValue(call.column, rows[j].key[1])
            /\ \A j \in 1..(Len(rows) - 1) : rows[j].count >= rows[j + 1].count
            /\ \A v \in vals \ returned :
                 \A j \in DOMAIN rows : RowsWithValue(call.column, v) <= rows[j].count

\* a call that cuts three distinct values down to the top two
C9_Witness ==
  /\ call.op = "get_top_n"
  /\ call.n = 2
  /\ Cardinality(DistinctValues(call.column)) = 3
  /\ Len(result.rows) = 2
  /\ result.rows[1].count > result.rows[2].count

\* the other cases of C9: an absent column; a dataset without rows
C9_ReachesAbsentColumn ==
  call.op = "get_top_n" /\ ~HasColumn(df, call.column) /\ result = EmptyFrame

C9_ReachesNoRows ==
  call.op = "get_top_n" /\ HasColumn(df, call.column) /\ df.rows = <<>>

\* C10: in every aggregated table the group keys with equal counts appear in
\* the order of their first occurrence in the dataset.
C10_TiesInFirstOccurrenceOrder ==
  result.shape \in AggregatedShapes =>
    \A i \in DOMAIN result.rows : \A j \in DOMAIN result.rows :
      (i < j /\ CountOf(result.rows[i]) = CountOf(result.rows[j])) =>
        FirstOccurrence(result.rows[i].key) < FirstOccurrence(result.rows[j].key)

\* the scenario of C10: US 40 times, UK 30 times, DE 30 times, UK before DE;
\* get_top_n(country, 2) returns US then UK.
C10_Scenario ==
  (/\ call.op = "get_top_n"
   /\ call.column = ColCountry
   /\ call.n = 2
   /\ [i \in DOMAIN df.rows |-> <<df.rows[i].c[ColCountry], df.rows[i].n>>]
        = <<<<US, 40>>, <<UK, 30>>, <<DE, 30>>>>) =>
    [j \in DOMAIN result.rows |-> <<result.rows[j].key[1], result.rows[j].count>>]
      = <<<<US, 40>>, <<UK, 30>>>>

----------------------------------------------------------------------------
(* Properties of the filtered grouping, checked under Spec *)

\* the last call is get_grouped_analysis with a filter on a text column
FilteredCall ==
  /\ call.op = "get_grouped_analysis"
  /\ Truthy(call.filter_col)
  /\ Truthy(call.filter_pattern)
  /\ HasColumn(df, call.filter_col[1])
  /\ Dtype(df, call.filter_col[1]) = "str"

\* the rows whose filter column is non-null and holds the pattern as a
\* substring, letter case aside
RowsHoldingPattern ==
  SelectSeq(df.rows,
            LAMBDA r : /\ Cell(r, call.filter_col[1]) # Null
                       /\ Contains(Lower(call.filter_pattern[1]),
                                   Lower(Cell(r, call.filter_col[1]).s)))

\* the filtered grouping as specified, over the rows RowsHoldingPattern
FilteredGrouping ==
  LET rows == RowsHoldingPattern
      cols == SelectSeq(call.group_cols, LAMBDA c : HasColumn(df, c))
  IN IF cols = <<>> \/ FrameLen(rows) = 0
     THEN result = EmptyFrame
     ELSE /\ result.shape = "grouped"
          /\ SumOver([j \in DOMAIN result.rows |-> result.rows[j].volume],
                     DOMAIN result.rows) = FrameLen(rows)
          /\ \A j \in DOMAIN result.rows :
               /\ result.rows[j].volume =
                    FrameLen(SelectSeq(rows, LAMBDA r : KeyOf(r, cols) = result.rows[j].key))
               /\ result.rows[j].volume > 0
               /\ result.rows[j].pct_of_total =
                    RoundDiv(result.rows[j].volume * 10000, FrameLen(rows))

\* C11: get_grouped_analysis with a filter column and a pattern groups only
\* the rows whose filter column is non-null and contains the pattern, letter
\* case aside; the volumes sum to the number of those rows and pct_of_total is
\* the volume over that number; with no group column or no such row the
\* result is the empty table.
C11_FilteredGrouping == FilteredCall => FilteredGrouping

\* the pattern has no regular-expression metacharacter
PlainPattern == \A j \in DOMAIN call.filter_pattern[1] : call.filter_pattern[1][j] # "."

\* C11 holds of the patterns that are plain text
C11_FilteredGroupingPlain == (FilteredCall /\ PlainPattern) => FilteredGrouping

\* a filter that keeps some rows and drops others
C11_ReachesProperFilter ==
  /\ FilteredCall
  /\ PlainPattern
  /\ result.shape = "grouped"
  /\ FrameLen(RowsHoldingPattern) < FrameLen(df.rows)

----------------------------------------------------------------------------
(* Properties of the partner filter, checked under SpecSky *)

\* the partner logical column is resolved, to a text column
PartnerResolved == "partner" \in DOMAIN column_cache

TextPartner == PartnerResolved /\ Dtype(df, column_cache["partner"]) = "str"

\* the rows whose partner value is non-null and holds 'sky' in any letter case
RowsHoldingSky ==
  SelectSeq(df.rows,
            LAMBDA r : /\ Cell(r, column_cache["partner"]) # Null
                       /\ Contains(Sky, Lower(Cell(r, column_cache["partner"]).s)))

C12_ReachesUnresolved ==
  /\ call.op = "get_sky_partner_count"
  /\ Len(df.columns) = 18
  /\ df.rows # <<>>
  /\ result = [shape |-> "count", value |-> 0]

----------------------------------------------------------------------------
(* Properties of the column resolver, checked under SpecResolver *)

\* C13: every logical name in the column map refers to a column identifier
\* of the dataset, and get_column returns such an identifier or None.
C13_NoStaleReference ==
  /\ \A name \in DOMAIN column_cache : column_cache[name] \in Range(df.columns)
  /\ call.op = "get_column" =>
       \/ result.value = <<>>
       \/ Len(result.value) = 1 /\ result.value[1] \in Range(df.columns)

\* a lookup that finds a column in a dataset narrower than the mapping assumes
C13_Witness ==
  /\ call.op = "get_column"
  /\ result.value # <<>>
  /\ Len(df.columns) < 22

\* a lookup of a name the map does not hold
C13_ReachesNone ==
  /\ call.op = "get_column"
  /\ result.value = <<>>
  /\ df.columns # <<>>

\* C14: a positional logical name (queue 0, date 9, description 12, partner
\* 18, country 20, description_translated 21) is bound exactly when the dataset
\* has at least index + 1 columns, and then to the identifier at that position,
\* for every width from no column up.
C14_PositionalBinding ==
  \A p \in { <<"queue", 0>>, <<"date", 9>>, <<"description", 12>>, <<"partner", 18>>,
             <<"country", 20>>, <<"description_translated", 21>> } :
    /\ p[1] \in DOMAIN column_cache <=> Len(df.columns) >= p[2] + 1
    /\ p[1] \in DOMAIN column_cache => column_cache[p[1]] = df.columns[p[2] + 1]

\* a dataset of exactly ten columns: date is bound to the last one,
\* description is absent
C14_Witness ==
  /\ Len(df.columns) = 10
  /\ "date" \in DOMAIN column_cache
  /\ column_cache["date"] = df.columns[10]
  /\ "description" \notin DOMAIN column_cache

\* a dataset without columns was constructed, and binds nothing
C14_ReachesNoColumns == df.columns = <<>> /\ DOMAIN column_cache = {}

\* the columns, by position, whose lowercased identifier holds one of the texts
ColumnsHolding(texts) ==
  {i \in DOMAIN df.columns : \E t \in texts : Contains(t, Lower(df.columns[i]))}

CategoryTexts ==
  { <<"c", "a", "t", "e", "g", "o", "r", "y">>, <<"c", "a", "t">> }

SubcategoryTexts ==
  { <<"s", "u", "b", "-", "c", "a", "t", "e", "g", "o", "r", "y">>,
    <<"s", "u", "b", "c", "a", "t", "e", "g", "o", "r", "y">>,
    <<"i", "s", "s", "u", "e">>, <<"r", "e", "a", "s", "o", "n">> }

\* C15: category is bound to the first column, in column order, whose
\* lowercased identifier contains 'category' or 'cat'; subcategory to the
\* first one that contains 'sub-category', 'subcategory', 'issue' or 'reason';
\* a name no column matches is absent from the map.
C15_DynamicBinding ==
  \A p \in { <<"category", CategoryTexts>>, <<"subcategory", SubcategoryTexts>> } :
    /\ p[1] \in DOMAIN column_cache <=> ColumnsHolding(p[2]) # {}
    /\ p[1] \in DOMAIN column_cache =>
         column_cache[p[1]] = df.columns[SetMin(ColumnsHolding(p[2]))]

\* category goes to Location, which holds 'cat' and stands before Category,
\* and is not the first column
C15_Witness ==
  /\ "category" \in DOMAIN column_cache
  /\ column_cache["category"] = ColLocation
  /\ ColCategory \in Range(df.columns)
  /\ df.columns[1] # ColLocation

\* a dataset with columns of which none matches a dynamic pattern
C15_ReachesNoMatch ==
  /\ df.columns # <<>>
  /\ "category" \notin DOMAIN column_cache
  /\ "subcategory" \notin DOMAIN column_cache

\* C16: a second DataProcessor built on the same ordered column identifiers
\* has the same column map as the first, whatever the rows of the two datasets.
C16_SameColumnsSameMap ==
  call.op = "rebuild" => column_cache = call.previous

\* two constructions on datasets that differ in their rows and bind names
C16_Witness ==
  /\ call.op = "rebuild"
  /\ call.previous_rows # df.rows
  /\ DOMAIN column_cache # {}
  /\ column_cache = call.previous

----------------------------------------------------------------------------
(* Properties of the text analyzer, checked under SpecText *)

TextCall == call.op = "categorize_text"

\* the characters of a text that cleaning leaves: not whitespace
Blank(s) == \A i \in DOMAIN s : s[i] \in Whitespace

\* the pieces that cleaning strips whole: boilerplate, e-mail addresses and
\* whitespace
StrippedFragments ==
  { <<"r", "e", "f", "u", "n", "d", "@", "s", "k", "y", ".", "c", "o", "m">>,
    <<"<", "E", "x", "t", "e", "r", "n", "a", "l", " ", " ", "E", "m", "a", "i", "l", ">">>,
    <<"S", "e", "n", "t", " ", "f", "r", "o", "m", " ", "m", "y", " ", "i", "P", "h", "o", "n", "e">>,
    <<" ", "\t", "\n">> }

\* the text is absent, not a string, empty, blank, or made of stripped
\* pieces only
NothingToClassify ==
  \/ input_text.k # "str"
  \/ Blank(input_text.s)
  \/ \E fs \in SeqsUpTo(StrippedFragments, MaxFragments) : input_text.s = JoinFragments(fs)

\* C17: categorize_text returns ('Unknown', 0) for None, for what is not a
\* string, for the empty string and for a text that is empty after cleaning:
\* whitespace only, or boilerplate and e-mail addresses only.
C17_UnknownForNothing ==
  (TextCall /\ NothingToClassify) => (result = Unknown /\ local.cleaned = <<>>)

\* a text that is not blank and is made of stripped pieces only
C17_Witness ==
  /\ TextCall
  /\ input_text.k = "str"
  /\ ~Blank(input_text.s)
  /\ NothingToClassify
  /\ result = Unknown

\* None, a number, the empty string and a blank text were classified
C17_ReachesNone == TextCall /\ input_text = Null /\ result = Unknown

C17_ReachesNotString == TextCall /\ input_text = IntCell(7) /\ result = Unknown

C17_ReachesEmptyString == TextCall /\ input_text = Str(<<>>) /\ result = Unknown

C17_ReachesBlank ==
  TextCall /\ input_text.k = "str" /\ input_text.s # <<>> /\ Blank(input_text.s) /\ result = Unknown

\* the keyword occurs in the text, by comparing it with every slice of the text
Occurs(kw, t) == \E i \in 1..(Len(t) - Len(kw) + 1) : SubSeq(t, i, i + Len(kw) - 1) = kw

\* the score of the k-th theme of the keyword table for the cleaned text:
\* each keyword that occurs counts its weight once
ExpectedScore(k) ==
  LET kws == KEYWORDS[k].keywords
  IN SumOver([j \in DOMAIN kws |-> kws[j].weight],
             {j \in DOMAIN kws : Occurs(kws[j].kw, local.cleaned)})

\* the text of the scoring example
RefundDoubleBill ==
  Str(<<"I", " ", "n", "e", "e", "d", " ", "a", " ", "r", "e", "f", "u", "n", "d", " ",
        "f", "o", "r", " ", "m", "y", " ", "d", "o", "u", "b", "l", "e", " ",
        "b", "i", "l", "l">>)

Billing5 == [theme |-> "Billing", score |-> 5]

\* C18: each theme's score is the sum of the weights of the theme's keywords
\* that occur at least once in the cleaned text, a repeated keyword counting
\* once and a keyword inside another matching keyword counting too; for
\* 'I need a refund for my double bill' Billing scores 5 and the result is
\* ('Billing', 5).
C18_PresenceScores ==
  /\ (TextCall /\ local.cleaned # <<>>) =>
       \A k \in DOMAIN KEYWORDS : local.scores[k] = ExpectedScore(k)
  /\ (TextCall /\ input_text = RefundDoubleBill) =>
       (local.scores[2] = 5 /\ result = Billing5)

\* the example was classified
C18_Witness == TextCall /\ input_text = RefundDoubleBill /\ result = Billing5

\* 'refund refund': the keyword counts once
C18_ReachesRepeat ==
  /\ TextCall
  /\ input_text = Str(<<"r", "e", "f", "u", "n", "d", " ", "r", "e", "f", "u", "n", "d">>)
  /\ result = [theme |-> "Billing", score |-> 2]

\* 'How to CANCEL': cancel and how to cancel both count
C18_ReachesNested ==
  /\ TextCall
  /\ local.cleaned = <<"h", "o", "w", " ", "t", "o", " ", "c", "a", "n", "c", "e", "l">>
  /\ result = [theme |-> "Cancellation", score |-> 3]

\* the scores of all the themes, zero for a text that is empty after cleaning
ExpectedScores == [k \in DOMAIN KEYWORDS |-> ExpectedScore(k)]

\* C19: the score returned is the highest of the theme scores and the theme
\* returned is a theme with that score; the result is ('Unknown', 0) exactly
\* when every theme scores 0, so a theme other than Unknown has a score above 0.
C19_MaximumScore ==
  TextCall =>
    /\ result.score = SetMax(Range(ExpectedScores))
    /\ result = Unknown <=> \A k \in DOMAIN KEYWORDS : ExpectedScores[k] = 0
    /\ result.theme = "Unknown" => result.score = 0
    /\ result.theme # "Unknown" =>
         /\ result.score > 0
         /\ \E k \in DOMAIN KEYWORDS :
              KEYWORDS[k].theme = result.theme /\ ExpectedScores[k] = result.score

\* a theme wins over another theme that scores too
C19_Witness ==
  /\ TextCall
  /\ result.theme = "Login"
  /\ \E k \in DOMAIN KEYWORDS : ExpectedScores[k] > 0 /\ ExpectedScores[k] < result.score

\* a text with words and no keyword
C19_ReachesNoKeyword == TextCall /\ local.cleaned # <<>> /\ result = Unknown

\* the place of a theme in the declaration order of the keyword table
ThemeIndex(theme) == CHOOSE k \in DOMAIN KEYWORDS : KEYWORDS[k].theme = theme

\* C20: when several themes share the highest score above 0, the one that
\* comes first in the declaration order of the keyword table (Cancellation,
\* Billing, Login, Technical, Payment, Partner, Content) is returned.
C20_FirstDeclaredWins ==
  /\ [k \in DOMAIN KEYWORDS |-> KEYWORDS[k].theme] =
       <<"Cancellation", "Billing", "Login", "Technical", "Payment", "Partner", "Content">>
  /\ (TextCall /\ result.theme # "Unknown") =>
       \A k \in DOMAIN KEYWORDS :
         ExpectedScores[k] = result.score => ThemeIndex(result.theme) <= k

\* 'password charged': Login and Billing tie at 2 and Billing, declared
\* first, is returned though its keyword comes second in the text
C20_Witness ==
  /\ TextCall
  /\ local.cleaned = <<"p", "a", "s", "s", "w", "o", "r", "d", " ",
                       "c", "h", "a", "r", "g", "e", "d">>
  /\ ExpectedScores[2] = 2
  /\ ExpectedScores[3] = 2
  /\ result = [theme |-> "Billing", score |-> 2]


----------------------------------------------------------------------------
(* Properties of the regional theme distribution, checked under SpecRegional *)

\* the last call is get_regional_themes and it found both columns
RegionalCall ==
  /\ call.op = "get_regional_themes"
  /\ HasColumn(df, ColTheme)
  /\ HasColumn(df, call.country_col)

\* the rows of the dataset in a country
RowsOfCountry(country) ==
  FrameLen(SelectSeq(df.rows, LAMBDA r : Cell(r, call.country_col) = country))

\* the share count / total is above tenths / 10
ShareAbove(count, total, tenths) == count * 10 > tenths * total

\* the label as specified
SpecifiedStrength(count, total) ==
  IF ShareAbove(count, total, 3) THEN "DOMINANT"
  ELSE IF ShareAbove(count, total, 2) THEN "HIGH"
  ELSE IF ShareAbove(count, total, 1) THEN "MODERATE"
  ELSE "LOW"

\* C21: in get_regional_themes the strength of every country and theme is
\* DOMINANT above a share of 0.30, HIGH above 0.20, MODERATE above 0.10 and
\* LOW otherwise, all comparisons strict, and the theme counts of a country
\* sum to the rows of that country
C21_StrengthLabels ==
  RegionalCall =>
    \A e \in DOMAIN result.rows :
      LET entry == result.rows[e]
          total == RowsOfCountry(entry.country)
      IN /\ SumOver([j \in DOMAIN entry.theme_dist |-> entry.theme_dist[j].count],
                    DOMAIN entry.theme_dist) = total
         /\ \A j \in DOMAIN entry.theme_dist :
              entry.theme_dist[j].strength =
                SpecifiedStrength(entry.theme_dist[j].count, total)

\* a country whose themes hold exactly 0.30, 0.20 and 0.10 of its rows
\* and one above 0.30, labelled HIGH, MODERATE, LOW and DOMINANT
C21_Witness ==
  /\ RegionalCall
  /\ \E e \in DOMAIN result.rows :
       LET entry == result.rows[e]
           total == RowsOfCountry(entry.country)
           Has(tenths, label) ==
             \E j \in DOMAIN entry.theme_dist :
               /\ entry.theme_dist[j].count * 10 = tenths * total
               /\ entry.theme_dist[j].strength = label
       IN /\ Has(4, "DOMINANT")
          /\ Has(3, "HIGH")
          /\ Has(2, "MODERATE")
          /\ Has(1, "LOW")

----------------------------------------------------------------------------
(* Properties of the theme narratives, checked under SpecNarrative *)

\* the bucket the classifier puts a text in: its theme, Other for Unknown
ClassifierBucket(text) ==
  IF categorize_text(text).ret.theme = "Unknown"
  THEN "Other"
  ELSE categorize_text(text).ret.theme

\* C22: analyze_region_themes counts each description row under the theme
\* that categorize_text assigns to its text, the theme of the highest weighted
\* keyword score, or under Other when every theme scores 0
C22_SameThemeAsClassifier ==
  call.op = "analyze_region_themes" =>
    \A i \in DOMAIN local.assigned : local.assigned[i] = ClassifierBucket(input_text)

\* the narratives and the classifier agree on the texts where a single theme
\* has a keyword of both tables outside an e-mail address or boilerplate
C22_AgreeOnOneTheme ==
  (/\ call.op = "analyze_region_themes"
   /\ input_text.k = "str"
   /\ clean_text(input_text) = Lower(input_text.s)
   /\ Cardinality(NarrativeHits(RowText(input_text))) = 1
   /\ \A k \in DOMAIN KEYWORDS :
        ThemeScore(KEYWORDS[k].keywords, clean_text(input_text)) > 0
          <=> k \in NarrativeHits(RowText(input_text)))
  => \A i \in DOMAIN local.assigned : local.assigned[i] = ClassifierBucket(input_text)

----------------------------------------------------------------------------
(* Properties of the operations as a whole, checked under SpecOps *)

\* C23: no DataProcessor operation and no text analyzer operation changes
\* the dataset of the processor (rows, columns, values) or its logical
\* column map; what they compute is returned
C23_DatasetAndMapUnchanged ==
  [][df' = df /\ column_cache' = column_cache]_vars

\* the text analyzer has returned a tagged table, wider than the dataset,
\* and the dataset and its map are as the construction left them
C23_Witness ==
  /\ call.op = "analyze_dataframe"
  /\ result.shape # "raise"
  /\ HasColumn(result, ColTheme)
  /\ ~HasColumn(df, ColTheme)
  /\ df \in OpsFrames
  /\ column_cache = detect_columns(df.columns)
  /\ \E i \in DOMAIN result.rows : result.rows[i].c[ColTheme] = ThemeCell("Billing")

\* the percentage computations
PercentageOps ==
  {"get_sky_partner_percentage", "get_distribution", "get_grouped_analysis",
   "get_regional_themes", "render_root_cause_analysis"}

\* the last call raised a division error (a call can also raise on a column
\* that is not text)
DivisionError ==
  /\ result.shape = "raise"
  /\ "error" \in DOMAIN result
  /\ result.error = "ZeroDivisionError"

\* the last call returned 0 or a table without rows
ZeroOrEmpty ==
  IF result.shape = "percentage" THEN result.value = 0 ELSE result.rows = <<>>

\* C24: on a dataset without rows no percentage computation raises a
\* division error: each returns 0, null or an empty table
C24_NoDivisionError ==
  (call.op \in PercentageOps /\ FrameLen(df.rows) = 0) =>
    ~DivisionError /\ ZeroOrEmpty

\* the percentage computations of the DataProcessor do as C24 says
C24_ProcessorGuardsZeroRows ==
  (/\ call.op \in PercentageOps \ {"render_root_cause_analysis"}
   /\ FrameLen(df.rows) = 0) =>
    ~DivisionError /\ ZeroOrEmpty

\* a percentage computation has run on a dataset without rows
C24_ZeroRowsReached ==
  /\ call.op \in PercentageOps \ {"render_root_cause_analysis"}
  /\ FrameLen(df.rows) = 0

----------------------------------------------------------------------------
(* Properties of the category columns, checked under SpecResolver *)

\* C30: whenever category and subcategory are both resolved they are bound
\* to two different columns
C30_DistinctColumns ==
  ({"category", "subcategory"} \subseteq DOMAIN column_cache) =>
    column_cache["category"] # column_cache["subcategory"]

----------------------------------------------------------------------------
(* Properties of the week labels, checked under SpecWeekly *)

\* the (year, week) label of a record of the series
WeekLabel(w) == <<w.year, w.week>>

\* C29: in the table of get_weekly_aggregation distinct calendar weeks carry
\* distinct (year, week) pairs, whatever the date range
C29_DistinctWeekLabels ==
  WeeklyCall =>
    \A j \in DOMAIN local.weekly : \A k \in DOMAIN local.weekly :
      local.weekly[j].week_start # local.weekly[k].week_start
        => WeekLabel(local.weekly[j]) # WeekLabel(local.weekly[k])

\* the labels are distinct in every series that holds no week starting on
\* 29-31 December
C29_DistinctWithoutStraddlingWeek ==
  (WeeklyCall /\ \A j \in DOMAIN local.weekly : ~StraddlingWeek(local.weekly[j].week_start)) =>
    \A j \in DOMAIN local.weekly : \A k \in DOMAIN local.weekly :
      local.weekly[j].week_start # local.weekly[k].week_start
        => WeekLabel(local.weekly[j]) # WeekLabel(local.weekly[k])

----------------------------------------------------------------------------
(* Properties of the application, checked under SpecApp *)

\* a run of main() in the Paramount mode has ended after it reached the
\* dashboard
ParamountRunEnded ==
  /\ script_run.pc = "idle"
  /\ script_run.analysis_mode = "Paramount Analysis"
  /\ script_run.sections # <<>>

\* every tab renderer was invoked in the run
EveryTabInvoked ==
  \A t \in DOMAIN Tabs :
    \E i \in DOMAIN script_run.sections : script_run.sections[i].section = Tabs[t]

\* C25: in a run with a dataset in the Paramount mode an error raised in one
\* section, the KPI row or a tab, never keeps the other sections from being
\* rendered: every tab renderer is invoked
C25_EveryTabInvoked == ParamountRunEnded => EveryTabInvoked

\* an error raised in a tab keeps no other tab from being rendered
C25_TabErrorsIsolated ==
  (ParamountRunEnded /\ ~script_run.sections[1].raised) => EveryTabInvoked

\* a run in which a tab raised and every tab was invoked
C25_TabRaisedAllInvoked ==
  /\ ParamountRunEnded
  /\ EveryTabInvoked
  /\ \E i \in DOMAIN script_run.sections : script_run.sections[i].raised

\* a section is being rendered
Rendering == call.op = "render"

\* C26: the column map a section uses in a render was built from the dataset
\* that is the dataset of the session in that render, and a redaction pass
\* leaves the ordered column identifiers and the row count as they were, so
\* the map resolves the same before and after it
C26_MapOfCurrentDataset ==
  /\ Rendering =>
       /\ df = session_state.data
       /\ column_cache = detect_columns(session_state.data.columns)
  /\ (call.op = "privacy" /\ script_run.pass = "redacted") =>
       /\ session_state.data.columns = call.before.data.columns
       /\ FrameLen(session_state.data.rows) = FrameLen(call.before.data.rows)
       /\ detect_columns(session_state.data.columns)
            = detect_columns(call.before.data.columns)

\* a section is rendered on a dataset whose redaction pass replaced an
\* address, with the map of that dataset
C26_Witness ==
  /\ Rendering
  /\ script_run.pass = "redacted"
  /\ column_cache = detect_columns(session_state.data.columns)
  /\ \E i \in DOMAIN df.rows :
       Contains(EmailPlaceholder, Cell(df.rows[i], column_cache["description"]).s)

\* C27: in a run with 'Enable PII Redaction' checked and a dataset of at
\* least 13 columns no section is rendered on an unredacted dataset:
\* pii_redacted is True before any section reads the dataset
C27_RedactedBeforeRender ==
  (/\ Rendering
   /\ script_run.enable_pii
   /\ Len(session_state.data.columns) >= 13)
  => session_state.pii_redacted

\* the description columns of the dataset of the session are text
DescriptionsAreText ==
  \A k \in DOMAIN desc_cols(session_state.data.columns) :
    Dtype(session_state.data, desc_cols(session_state.data.columns)[k]) = "str"

\* C27 holds of the datasets whose description columns are text, and their
\* descriptions then hold no address
C27_RedactedWhenText ==
  (/\ Rendering
   /\ script_run.enable_pii
   /\ Len(session_state.data.columns) >= 13
   /\ DescriptionsAreText)
  => /\ session_state.pii_redacted
     /\ \A i \in DOMAIN df.rows :
          \A k \in DOMAIN desc_cols(df.columns) :
            LET cell == Cell(df.rows[i], desc_cols(df.columns)[k])
            IN cell # Null => ~Contains(<<"@">>, cell.s)

\* C28: the upload section changes the session triple (data, filename,
\* pii_redacted) exactly when a file is in the uploader, its name differs
\* from the stored one and loading succeeds, and then to (new table, new
\* name, False); and pii_redacted = True implies data is not None
C28_UploadEvent ==
  [][/\ script_run.pc = "upload" =>
          LET f == script_run.uploaded_file
              loads == f # <<>> /\ f[1].content # Null
              differs == f # <<>> /\ session_state.filename # <<f[1].name>>
          IN /\ (session_state' # session_state) <=> (differs /\ loads)
             /\ (differs /\ loads) =>
                  session_state' = [data |-> f[1].content,
                                    filename |-> <<f[1].name>>,
                                    pii_redacted |-> FALSE]
     /\ session_state'.pii_redacted => session_state'.data # Null]_vars

\* the upload section has left a redacted session as it was although the
\* file in the uploader, of the stored name, holds another table
C28_Witness ==
  /\ call.op = "upload"
  /\ session_state = call.before
  /\ session_state.pii_redacted
  /\ script_run.uploaded_file # <<>>
  /\ session_state.filename = <<script_run.uploaded_file[1].name>>
  /\ script_run.uploaded_file[1].content # Null
  /\ script_run.uploaded_file[1].content.columns # session_state.data.columns
====
